---- MODULE Spec2Model ----
(***************************************************************************)
(* A model of sglmr/go-web-starter (cmd/web): the background task runner   *)
(* and the shutdown sequence of runApp, and the handler chain built by     *)
(* newServer with its session-backed login.                                *)
(*                                                                         *)
(* Three groups of state run the server.    TaskSpec runs the goroutines of  *)
(* runApp (main, the shutdown goroutine, request handlers that schedule    *)
(* background tasks, the tasks themselves); FairTaskSpec adds the          *)
(* fairness of the Go scheduler.  Spec runs one client against the handler *)
(* chain, one request at a time, stage by stage.  TabSpec runs two tabs of *)
(* one browser, whose requests share a session and are in flight together.*)
(*                                                                         *)
(* Five units are checked on their own, each with its own variable:        *)
(* BootSpec the start of the process up to its exit code, FilesSpec        *)
(* staticFileSystem.Open, TripSpec the next parameter from the login gate  *)
(* to login's redirect, MailSpec the retry loop of Mailer.Send and         *)
(* FormSpec the Validator.                                                 *)
(***************************************************************************)
EXTENDS Integers, Sequences, FiniteSets, TLC

\* Number of requests the task model accepts; a request schedules at most
\* one background task, which carries the request's number.
MaxReqs == 2

Reqs == 1..MaxReqs

VARIABLES
    wgCounter,    \* counter of the sync.WaitGroup created in runApp
    mainpc,       \* runApp's own goroutine: waiting, released, complete, exited, panicked
    shutpc,       \* the shutdown goroutine: waitSignal, httpShutdown, returned, done
    hpc,          \* per request: position of the handler goroutine
    hkind,        \* per request: the handler that serves it
    hstatus,      \* per request: status code written (0: none yet)
    hafter,       \* per request: accepted after a task's panic was recovered
    tpc,          \* per task: position of the goroutine started by backgroundTask
    tout,         \* per task: outcome of the work function
    taskLog,      \* per task: the logger.Error entries the task wrote
    procAlive     \* FALSE once a panic has left a goroutine unrecovered

taskVars == <<wgCounter, mainpc, shutpc, hpc, hkind, hstatus, hafter, tpc, tout,
              taskLog, procAlive>>

VARIABLES
    cfg,          \* the configuration runApp read from its flags
    jar,          \* the client's cookies: session token (0: none), CSRF cookie
    prev,         \* what the client's previous exchange was
    conn,         \* the request being served and its position in the chain
    app           \* the session store, and the session data, context,
                  \* response and log entries of the request being served

httpVars == <<cfg, jar, prev, conn, app>>

VARIABLES
    tabs,         \* per tab of the client's browser: the request it has in
                  \* flight, the session data loaded for it, its response
    tabSent,      \* number of requests the tabs have sent
    flashCount,   \* per flash message text: how often it was put into a
                  \* session and how often a rendered page has shown it
    revoked       \* the tokens with which a logout POST has been answered,
                  \* and the tabs whose request arrived with such a token

tabVars == <<tabs, tabSent, flashCount, revoked>>

VARIABLES
    boot          \* the start of the process: the arguments and environment
                  \* of runApp, how far it is, the exit code and standard error

VARIABLES
    files         \* staticFileSystem.Open on its own: the embedded tree, the
                  \* name asked for, what Open returned and what was served

VARIABLES
    trip          \* the way of the next parameter: the request URI the gate
                  \* saw, the login URL, the Location login answers with

VARIABLES
    mail          \* a background task that calls Mailer.Send: how far it is,
                  \* the attempts made, the waits, what Send returned

VARIABLES
    form          \* a Validator and the calls made on it

unitVars == <<boot, files, trip, mail, form>>

\* The state of the running server.
serverVars == <<taskVars, httpVars, tabVars>>

\* What a unit leaves alone: the server and the other units.
notBoot == <<serverVars, files, trip, mail, form>>
notFiles == <<serverVars, boot, trip, mail, form>>
notTrip == <<serverVars, boot, files, mail, form>>
notMail == <<serverVars, boot, files, trip, form>>
notForm == <<serverVars, boot, files, trip, mail>>

vars == <<taskVars, httpVars, tabVars, unitVars>>

----------------------------------------------------------------------------
(* The handler chain of newServer: requests, responses, sessions           *)

\* Number of session tokens the session manager generates.
MaxTokens == 3

Tokens == 1..MaxTokens

StatusOK == 200
StatusFound == 302
StatusSeeOther == 303
StatusBadRequest == 400
StatusUnauthorized == 401
StatusNotFound == 404
StatusUnprocessableEntity == 422
StatusInternalServerError == 500

\* The limits login passes to validator.MaxRunes.
EmailMaxRunes == 50
PasswordMaxRunes == 100

\* A chain without recoverPanicMW.
ChainWithoutRecover ==
    <<"logRequestMW", "LoadAndSave", "authenticateMW", "secureHeadersMW", "mux">>

\* The stages of the chain, outermost first: newServer wraps the mux in
\* recoverPanicMW, then secureHeadersMW, authenticateMW, LoadAndSave and
\* logRequestMW, so the stage wrapped last is the first to run.
Chain ==
    <<"logRequestMW", "LoadAndSave", "authenticateMW", "secureHeadersMW",
      "recoverPanicMW", "mux">>

StageIndex(name) == CHOOSE i \in DOMAIN Chain : Chain[i] = name

\* A panic raised by the stage at depth d unwinds through the stages
\* outside it: it ends in the deferred recover() of recoverPanicMW if that
\* stage is one of them.
Recovered(d) == \E j \in 1..(d - 1) : Chain[j] = "recoverPanicMW"

\* The response writer a stage at depth d holds is scs's
\* sessionResponseWriter if LoadAndSave is outside it.
SessionWraps(d) == \E j \in 1..(d - 1) : Chain[j] = "LoadAndSave"

TestEmail == "test@example.com"
OtherEmail == "other@example.com"
LongEmail == "a.local.part.of.more.than.fifty.runes.long@example.com"
TestPassword == "password"

\* utf8.RuneCountInString on the strings of the model.
RuneCount(s) ==
    CASE s = "" -> 0
      [] s = " " -> 1
      [] s = "admin" -> 5
      [] s = "Person" -> 6
      [] s = "Hello" -> 5
      [] s = TestEmail -> 16
      [] s = OtherEmail -> 17
      [] s = LongEmail -> 54
      [] s = TestPassword -> 8
      [] s = "wrong-password" -> 14

\* strings.TrimSpace on the strings of the model.
TrimSpace(s) == IF s = " " THEN "" ELSE s

NotBlank(value) == TrimSpace(value) # ""

MaxRunes(value, n) == RuneCount(value) <= n

\* The strings of the model that match validator's email expression.
IsEmail(value) == value \in {TestEmail, OtherEmail, LongEmail}

\* A variant in which a later message for a key replaces the one recorded.
CheckOverwrites(errors, key, ok, message) ==
    IF ok THEN errors
    ELSE [k \in DOMAIN errors \cup {key} |-> IF k = key THEN message ELSE errors[k]]

\* Validator.Check over the Errors map: AddError keeps the first message
\* recorded for a key.
Check(errors, key, ok, message) ==
    IF ok \/ key \in DOMAIN errors THEN errors
    ELSE [k \in DOMAIN errors \cup {key} |-> IF k = key THEN message ELSE errors[k]]

HasErrors(errors) == DOMAIN errors # {}

\* A password hash as configured: the algorithm that made it and the
\* password it was made from.  The hash tool of the repository writes bcrypt
\* hashes; login and basicAuthMW read argon2id ones.
HashOf(alg, pw) == [alg |-> alg, pw |-> pw]

\* The text of argon2id.ErrInvalidHash.
ErrInvalidHash == "argon2id: hash is not in the correct format"

\* argon2id.ComparePasswordAndHash: a hash that is not an encoded argon2id
\* hash is an error, ErrInvalidHash.
ComparePasswordAndHash(password, hash) ==
    IF hash.alg # "argon2id" THEN [match |-> FALSE, err |-> TRUE]
    ELSE [match |-> (password = hash.pw), err |-> FALSE]

\* subtle.ConstantTimeCompare(x, y) == 1
ConstantTimeCompare(x, y) == x = y

\* The values of -auth-email (AUTH_EMAIL), -auth-password-hash
\* (AUTH_PASSWORD_HASH) and -dev the program is started with.
Configs ==
    [authEmail : {TestEmail, "admin"},
     passwordHash : {HashOf("argon2id", TestPassword), HashOf("bcrypt", TestPassword)},
     devMode : BOOLEAN]

HeaderNames ==
    {"Referrer-Policy", "X-Content-Type-Options", "X-Frame-Options",
     "X-XSS-Protection", "Cache-Control", "WWW-Authenticate", "Location"}

NoHeaders == [n \in HeaderNames |-> ""]

\* A variant of secureHeadersMW that leaves X-Frame-Options out.
SecureHeadersWithoutFrameOptions ==
    [n \in {"Referrer-Policy", "X-Content-Type-Options", "X-XSS-Protection"} |->
        CASE n = "Referrer-Policy" -> "origin-when-cross-origin"
          [] n = "X-Content-Type-Options" -> "nosniff"
          [] n = "X-XSS-Protection" -> "0"]

\* The headers secureHeadersMW sets.
SecureHeaders ==
    [n \in {"Referrer-Policy", "X-Content-Type-Options", "X-Frame-Options",
            "X-XSS-Protection"} |->
        CASE n = "Referrer-Policy" -> "origin-when-cross-origin"
          [] n = "X-Content-Type-Options" -> "nosniff"
          [] n = "X-Frame-Options" -> "deny"
          [] n = "X-XSS-Protection" -> "0"]

ServerErrorMessage == "The server encountered a problem and could not process your request"

NoSession == [live |-> FALSE, auth |-> FALSE, msgs |-> <<>>]

\* The session data of a request that came without a token the store knows.
NewSessionData == [token |-> 0, auth |-> FALSE, msgs |-> <<>>, status |-> "unmodified"]

\* A response nothing is written of.  body is the text of the first write
\* and bodyErr the error that is printed in it, if one is; more holds what
\* is written to the body after the first write.
NoResponse ==
    [status |-> 0, headers |-> NoHeaders, body |-> "", bodyErr |-> "",
     more |-> <<>>, flashes |-> <<>>,
     formErrors |-> <<>>, setCookie |-> 0, setCsrf |-> FALSE]

NoRequest ==
    [method |-> "", path |-> "", next |-> "", cookie |-> 0, csrfCookie |-> FALSE,
     csrfToken |-> "none", name |-> "", email |-> "", password |-> "",
     message |-> "", basic |-> <<>>]

\* A GET for a path, with nothing else in it.
Get(path) == [NoRequest EXCEPT !.method = "GET", !.path = path]

GetPaths ==
    {"/", "/nope", "/static/app.css", "/static/img/", "/health/", "/send-mail/",
     "/contact/", "/login/", "/basic-auth-required/", "/login-required/",
     "/logout/"}

\* The requests the client sends, before its cookies are attached.
Requests ==
    {Get(p) : p \in GetPaths}
    \cup {[Get("/basic-auth-required/") EXCEPT !.basic = <<u, p>>] :
            u \in {TestEmail, "admin"}, p \in {TestPassword, "wrong-password"}}
    \cup {[NoRequest EXCEPT !.method = "POST", !.path = "/contact/", !.csrfToken = c,
                            !.name = n, !.email = e, !.message = "Hello"] :
            c \in {"valid", "none"}, n \in {"Person", ""}, e \in {TestEmail, "admin"}}
    \cup {[NoRequest EXCEPT !.method = "POST", !.path = "/login/", !.csrfToken = c,
                            !.email = e, !.password = p] :
            c \in {"valid", "none"},
            e \in {TestEmail, OtherEmail, "admin", "", LongEmail},
            p \in {TestPassword, "wrong-password", ""}}
    \cup {[NoRequest EXCEPT !.method = "POST", !.path = "/logout/", !.csrfToken = c] :
            c \in {"valid", "none"}}
    \cup {[NoRequest EXCEPT !.method = "POST", !.path = "/health/"]}

IdleConn == [pc |-> "idle", depth |-> 0, req |-> NoRequest, fault |-> "none", loaded |-> <<>>]

\* The per-request part of app, as it is between requests.
IdleApp(store, nextToken) ==
    [store |-> store, nextToken |-> nextToken, sess |-> NewSessionData,
     auth |-> FALSE, sw |-> FALSE, resp |-> NoResponse, log |-> <<>>,
     tasks |-> 0, pass |-> TRUE, panic |-> FALSE]

----------------------------------------------------------------------------
(* What the stages and the handlers do to the request's state h            *)

\* w.Header().Set(name, value): the header map is sent with the first
\* write, what is set later is not.
SetHeader(h, name, value) ==
    IF h.resp.status # 0 THEN h ELSE [h EXCEPT !.resp.headers[name] = value]

\* scs's commitAndWriteSessionCookie, which sessionResponseWriter runs before
\* the first write: session data that was modified is saved in the store,
\* under a new token if it has none, and the session cookie is set.
Commit(h) ==
    IF ~h.sw \/ h.sess.status # "modified" THEN h
    ELSE LET tok == IF h.sess.token = 0 THEN h.nextToken ELSE h.sess.token
         IN  [h EXCEPT !.store[tok] = [live |-> TRUE, auth |-> h.sess.auth,
                                        msgs |-> h.sess.msgs],
                       !.nextToken = IF h.sess.token = 0 THEN @ + 1 ELSE @,
                       !.sess.token = tok,
                       !.resp.setCookie = tok]

\* w.WriteHeader(status) and the body, with the error printed in the body
\* if one is: the first write fixes the status, and a later write adds its
\* text to the body that was begun.
WriteBody(h, status, body, err) ==
    IF h.resp.status # 0
    THEN IF body = "" THEN h
         ELSE [h EXCEPT !.resp.more = Append(@, [text |-> body, err |-> err])]
    ELSE [Commit(h) EXCEPT !.resp.status = status, !.resp.body = body,
                           !.resp.bodyErr = err]

Write(h, status, body) == WriteBody(h, status, body, "")

\* http.Error
HttpError(h, body, status) ==
    Write(SetHeader(h, "X-Content-Type-Options", "nosniff"), status, body)

\* http.Error with a body that fmt.Sprintf made of the error and the stack.
HttpErrorTrace(h, err, status) ==
    WriteBody(SetHeader(h, "X-Content-Type-Options", "nosniff"), status,
              "error and stack trace", err)

\* http.Redirect
Redirect(h, url, status) == Write(SetHeader(h, "Location", url), status, "")

\* An entry of the logger: the level, the message and the attributes.
LogEntry(level, msg, attrs) == [level |-> level, msg |-> msg, attrs |-> attrs]

\* A variant of serverError that shows the trace whatever the mode.
serverErrorAlwaysTrace(h, err) == HttpErrorTrace(h, err, StatusInternalServerError)

\* serverError: with showTrace, which runApp sets to -dev, the error and the
\* stack are the body and nothing is logged; without it the error is logged
\* and the body is the fixed message.
serverError(h, err) ==
    IF cfg.devMode
    THEN HttpErrorTrace(h, err, StatusInternalServerError)
    ELSE HttpError([h EXCEPT !.log =
                      Append(@, LogEntry("ERROR", "server error",
                                         [status |-> StatusInternalServerError,
                                          error |-> err]))],
                   ServerErrorMessage, StatusInternalServerError)

\* http.StatusText(status) of the statuses clientError is called with.
StatusText(status) ==
    CASE status = StatusNotFound -> "Not Found"
      [] status = StatusBadRequest -> "Bad Request"

clientError(h, status) == HttpError(h, StatusText(status), status)

FlashMessage(level, message) == [Level |-> level, Message |-> message]

\* A variant of putFlashMessage that puts the message in place of the queue.
putFlashMessageReplaces(h, level, message) ==
    [h EXCEPT !.sess.msgs = <<FlashMessage(level, message)>>,
              !.sess.status = "modified"]

\* putFlashMessage: the message goes to the end of the session's messages.
putFlashMessage(h, level, message) ==
    [h EXCEPT !.sess.msgs = Append(@, FlashMessage(level, message)),
              !.sess.status = "modified"]

\* newTemplateData: Pop takes the messages out of the session; a session
\* without messages is left as it was.
newTemplateData(h) ==
    [h |-> IF h.sess.msgs = <<>> THEN h
           ELSE [h EXCEPT !.sess.msgs = <<>>, !.sess.status = "modified"],
     Messages |-> h.sess.msgs,
     IsAuthenticated |-> h.auth,
     Errors |-> <<>>]

\* render.Page: the page is written with the status, the messages and the
\* form errors of data.
renderPage(h, status, data, page) ==
    IF h.resp.status # 0 THEN h
    ELSE [Write(h, status, page) EXCEPT !.resp.flashes = data.Messages,
                                        !.resp.formErrors = data.Errors]

\* A variant of RenewToken that leaves the session under the token it has.
RenewTokenKeepsToken(h) == h

\* sessionManager.RenewToken: the old token is deleted from the store at
\* once and the session data gets a new one.
RenewToken(h) ==
    [h EXCEPT !.store = IF h.sess.token # 0
                        THEN [@ EXCEPT ![h.sess.token] = NoSession] ELSE @,
              !.sess.token = h.nextToken,
              !.nextToken = @ + 1,
              !.sess.status = "modified"]

\* sessionManager.Put(ctx, "authenticated", true)
PutAuthenticated(h) == [h EXCEPT !.sess.auth = TRUE, !.sess.status = "modified"]

\* A variant of Remove that leaves the key in the session.
RemoveAuthenticatedKeepsKey(h) == h

\* sessionManager.Remove(ctx, "authenticated"): a key that is not there
\* leaves the session unmodified.
RemoveAuthenticated(h) ==
    IF ~h.sess.auth THEN h
    ELSE [h EXCEPT !.sess.auth = FALSE, !.sess.status = "modified"]

\* backgroundTask as the handler sees it: one more task is scheduled.
scheduleTask(h) == [h EXCEPT !.tasks = @ + 1]

\* The files and directories under static/ in the embedded file system.
StaticEntry(path) ==
    CASE path = "/static/app.css" -> "file"
      [] path = "/static/img/" -> "dir"
      [] OTHER -> "none"

\* staticFileSystem.Open: a directory opens only if it holds an index.html,
\* and none of the model's does.
staticOpen(path) == StaticEntry(path) = "file"

\* cacheControlMW around http.FileServer
fileServer(h, req) ==
    LET h1 == SetHeader(h, "Cache-Control", "public, max-age=31536000")
    IN  IF staticOpen(req.path) THEN Write(h1, StatusOK, "file")
        ELSE HttpError(h1, "404 page not found", StatusNotFound)

home(h, req) ==
    IF req.path # "/" THEN clientError(h, StatusNotFound)
    ELSE LET h1 == putFlashMessage(h, "success", "Welcome!")
             h2 == putFlashMessage(h1, "success", "You made it!")
             data == newTemplateData(h2)
         IN  renderPage(data.h, StatusOK, data, "home.tmpl")

health(h, req) == Write(h, StatusOK, "status: OK")

sendEmail(h, req) == scheduleTask(Write(h, StatusOK, "Email queued"))

basicAuthDemo(h, req) == Write(h, StatusOK, "basic authentication demo")

loginRequiredDemo(h, req) == Write(h, StatusOK, "login required demo")

\* The checks contact makes of its form.
contactForm(req) ==
    LET e1 == Check(<<>>, "Name", NotBlank(req.name), "Name is required.")
        e2 == Check(e1, "Name", MaxRunes(req.name, 100),
                    "Name must be less than 100 characters.")
        e3 == Check(e2, "Email", NotBlank(req.email), "Email is required.")
        e4 == Check(e3, "Email", IsEmail(req.email),
                    "Email must be a valid email address.")
        e5 == Check(e4, "Message", NotBlank(req.message), "Message is required.")
    IN  Check(e5, "Message", MaxRunes(req.message, 1000),
              "Message must be less than 1,000 characters.")

contact(h, req) ==
    LET data == newTemplateData(h)
        errors == contactForm(req)
    IN  IF req.method = "POST" /\ ~HasErrors(errors)
        THEN renderPage(scheduleTask(data.h), StatusFound, data, "contact-success.tmpl")
        ELSE IF req.method = "POST"
        THEN renderPage(data.h, StatusOK, [data EXCEPT !.Errors = errors], "contact.tmpl")
        ELSE renderPage(data.h, StatusOK, data, "contact.tmpl")

\* The checks login makes of its form.
loginForm(req) ==
    LET e1 == Check(<<>>, "Email", NotBlank(req.email), "This field cannot be blank.")
        e2 == Check(e1, "Email", MaxRunes(req.email, EmailMaxRunes),
                    "This field cannot be more than 100 characters.")
        e3 == Check(e2, "Email", IsEmail(req.email), "Email must be a valid email.")
        e4 == Check(e3, "Password", NotBlank(req.password), "This field cannot be blank.")
    IN  Check(e4, "Password", MaxRunes(req.password, PasswordMaxRunes),
              "This field cannot be more than 150 characters.")

\* A variant of the branch that renews the session token as well.
loginInvalidRenewsToken(h, errors) ==
    LET data == newTemplateData(putFlashMessage(RenewToken(h), "error",
                                                "please correct the form errors"))
    IN  renderPage(data.h, StatusUnprocessableEntity, [data EXCEPT !.Errors = errors],
                   "login.tmpl")

\* login, the form has errors: a flash message, and the page again with the
\* errors.
loginInvalid(h, errors) ==
    LET data == newTemplateData(putFlashMessage(h, "error", "please correct the form errors"))
    IN  renderPage(data.h, StatusUnprocessableEntity, [data EXCEPT !.Errors = errors],
                   "login.tmpl")

\* A variant that tells the client that the email is not the configured one.
loginEmailMismatchReveals(h) ==
    LET data == newTemplateData(putFlashMessage(h, "error", "Email is not registered"))
    IN  renderPage(data.h, StatusNotFound, data, "login.tmpl")

\* login, the email is not authEmail.
loginEmailMismatch(h) ==
    LET data == newTemplateData(putFlashMessage(h, "error", "Email or password is incorrect"))
    IN  renderPage(data.h, StatusUnprocessableEntity, data, "login.tmpl")

\* A variant that lets the configured email in with any password.
loginPasswordMismatchLogsIn(h) ==
    Redirect(putFlashMessage(PutAuthenticated(RenewToken(h)), "success", "You are in!"),
             "/", StatusSeeOther)

\* login, the password does not match the hash.
loginPasswordMismatch(h) ==
    LET data == newTemplateData(putFlashMessage(h, "error", "Email or password is incorrect"))
    IN  renderPage(data.h, StatusUnprocessableEntity, data, "login.tmpl")

\* A variant that redirects without marking the session authenticated.
loginSuccessWithoutPut(h, url) ==
    Redirect(putFlashMessage(RenewToken(h), "success", "You are in!"),
             url, StatusSeeOther)

\* login, the credentials are right: a new token, the session marked
\* authenticated, a flash message and the redirect.
loginSuccess(h, url) ==
    Redirect(putFlashMessage(PutAuthenticated(RenewToken(h)), "success", "You are in!"),
             url, StatusSeeOther)

\* r.URL.Query().Get("next"), or "/" if the request has none.
nextURL(req) == IF req.next = "" THEN "/" ELSE req.next

login(h, req) ==
    LET errors == loginForm(req)
        cmp == ComparePasswordAndHash(req.password, cfg.passwordHash)
    IN  IF req.method = "GET"
        THEN LET data == newTemplateData(h)
             IN  renderPage(data.h, StatusOK, data, "login.tmpl")
        ELSE IF HasErrors(errors) THEN loginInvalid(h, errors)
        ELSE IF ~ConstantTimeCompare(cfg.authEmail, req.email) THEN loginEmailMismatch(h)
        ELSE IF cmp.err THEN serverError(h, ErrInvalidHash)
        ELSE IF ~cmp.match THEN loginPasswordMismatch(h)
        ELSE loginSuccess(h, nextURL(req))

logout(h, req) ==
    IF req.method = "GET"
    THEN LET data == newTemplateData(h)
         IN  renderPage(data.h, StatusOK, data, "logout.tmpl")
    ELSE Redirect(putFlashMessage(RemoveAuthenticated(RenewToken(h)), "success",
                                  "You've been logged out!"),
                  "/", StatusSeeOther)

\* A gate lets the request through to what it wraps, or answers itself.
Reject(h) == [h EXCEPT !.pass = FALSE]

\* A variant of csrfMW that sets the cookie and checks no token.
csrfMWUnchecked(h, req) ==
    IF req.csrfCookie THEN h ELSE [h EXCEPT !.resp.setCsrf = TRUE]

\* nosurf: a request without the CSRF cookie is sent one; a request with an
\* unsafe method passes only with the token that goes with its cookie.
csrfMW(h, req) ==
    LET h1 == IF req.csrfCookie THEN h ELSE [h EXCEPT !.resp.setCsrf = TRUE]
    IN  IF req.method = "GET" \/ (req.csrfCookie /\ req.csrfToken = "valid") THEN h1
        ELSE Reject(HttpError(h1, "", StatusBadRequest))

authError(h) ==
    HttpError(SetHeader(h, "WWW-Authenticate", "Basic realm=\"restricted\", charset=\"UTF-8\""),
              "You must be authenticated to access this resource", StatusUnauthorized)

\* A variant of basicAuthMW that takes any username.
basicAuthMWAnyUser(h, req) ==
    LET cmp == ComparePasswordAndHash(req.basic[2], cfg.passwordHash)
    IN  IF req.basic = <<>> THEN Reject(authError(h))
        ELSE IF cmp.err
        THEN Reject(authError([h EXCEPT !.log =
                        Append(@, LogEntry("ERROR", "ComparePasswordAndHash error",
                                           [error |-> ErrInvalidHash]))]))
        ELSE IF ~cmp.match THEN Reject(authError(h))
        ELSE h

basicAuthMW(h, req) ==
    LET cmp == ComparePasswordAndHash(req.basic[2], cfg.passwordHash)
    IN  IF req.basic = <<>> THEN Reject(authError(h))
        ELSE IF cfg.authEmail # req.basic[1] THEN Reject(authError(h))
        ELSE IF cmp.err
        THEN Reject(authError([h EXCEPT !.log =
                        Append(@, LogEntry("ERROR", "ComparePasswordAndHash error",
                                           [error |-> ErrInvalidHash]))]))
        ELSE IF ~cmp.match THEN Reject(authError(h))
        ELSE h

\* "/login/?next=" + url.QueryEscape(r.RequestURI) for the paths behind
\* requireLoginMW.
LoginRedirectURL(path) ==
    CASE path = "/login-required/" -> "/login/?next=%2Flogin-required%2F"
      [] path = "/logout/" -> "/login/?next=%2Flogout%2F"

\* A variant of requireLoginMW that lets the response be cached.
requireLoginMWCacheable(h, req) ==
    IF ~h.auth THEN Reject(Redirect(h, LoginRedirectURL(req.path), StatusSeeOther))
    ELSE h

requireLoginMW(h, req) ==
    IF ~h.auth THEN Reject(Redirect(h, LoginRedirectURL(req.path), StatusSeeOther))
    ELSE SetHeader(h, "Cache-Control", "no-store")

\* The pattern of addRoutes a path falls under: the longest one.
PathPattern(path) ==
    CASE path \in {"/static/app.css", "/static/img/"} -> "/static/"
      [] path \in {"/health/", "/send-mail/", "/contact/", "/login/",
                   "/basic-auth-required/", "/login-required/", "/logout/"} -> path
      [] OTHER -> "/"

\* The patterns addRoutes registers.
Routes ==
    {<<"GET", "/static/">>, <<"GET", "/">>, <<"GET", "/health/">>,
     <<"GET", "/send-mail/">>, <<"GET", "/contact/">>, <<"POST", "/contact/">>,
     <<"GET", "/login/">>, <<"POST", "/login/">>, <<"GET", "/basic-auth-required/">>,
     <<"GET", "/login-required/">>, <<"GET", "/logout/">>, <<"POST", "/logout/">>}

\* A variant of addRoutes with csrfMW outside requireLoginMW.
GatesCsrfOutermost(pattern) ==
    CASE pattern \in {"/contact/", "/login/"} -> <<"csrfMW">>
      [] pattern = "/basic-auth-required/" -> <<"basicAuthMW", "csrfMW">>
      [] pattern \in {"/login-required/", "/logout/"} -> <<"csrfMW", "requireLoginMW">>
      [] OTHER -> <<>>

\* The gates addRoutes puts around the handler of a pattern, outermost first.
Gates(pattern) ==
    CASE pattern \in {"/contact/", "/login/"} -> <<"csrfMW">>
      [] pattern = "/basic-auth-required/" -> <<"basicAuthMW", "csrfMW">>
      [] pattern \in {"/login-required/", "/logout/"} -> <<"requireLoginMW", "csrfMW">>
      [] OTHER -> <<>>

Gate(name, h, req) ==
    CASE name = "csrfMW" -> csrfMW(h, req)
      [] name = "basicAuthMW" -> basicAuthMW(h, req)
      [] name = "requireLoginMW" -> requireLoginMW(h, req)

RECURSIVE RunGates(_, _, _)
RunGates(gates, h, req) ==
    IF gates = <<>> \/ ~h.pass THEN h
    ELSE RunGates(Tail(gates), Gate(Head(gates), h, req), req)

Handler(pattern, h, req) ==
    CASE pattern = "/static/" -> fileServer(h, req)
      [] pattern = "/" -> home(h, req)
      [] pattern = "/health/" -> health(h, req)
      [] pattern = "/send-mail/" -> sendEmail(h, req)
      [] pattern = "/contact/" -> contact(h, req)
      [] pattern = "/login/" -> login(h, req)
      [] pattern = "/basic-auth-required/" -> basicAuthDemo(h, req)
      [] pattern = "/login-required/" -> loginRequiredDemo(h, req)
      [] pattern = "/logout/" -> logout(h, req)

\* Where a panic is raised inside the mux: nowhere, in the first gate of the
\* route, at the entry of the route handler, or in the route handler after
\* it has written its response.
MuxFaults == {"none", "gate", "handler", "handlerLate"}

\* The value the model's panics are raised with.
PanicValue == "Help!"

Panic(h) == [h EXCEPT !.panic = TRUE]

\* mux.ServeHTTP: the request goes to the handler of its pattern through the
\* pattern's gates; a method no pattern of the path takes is answered 405.
ServeMux(h, req, fault) ==
    LET pattern == PathPattern(req.path)
        gated == RunGates(Gates(pattern), h, req)
    IN  IF <<req.method, pattern>> \notin Routes
        THEN HttpError(h, "Method Not Allowed", 405)
        ELSE IF fault = "gate" THEN Panic(h)
        ELSE IF ~gated.pass THEN gated
        ELSE IF fault = "handler" THEN Panic(gated)
        ELSE IF fault = "handlerLate" THEN Panic(Handler(pattern, gated, req))
        ELSE Handler(pattern, gated, req)

\* Whether the fault has a place to happen in the request.
FaultApplies(h, req, fault) ==
    LET pattern == PathPattern(req.path)
    IN  CASE fault = "none" -> TRUE
          [] fault = "gate" -> <<req.method, pattern>> \in Routes /\ Gates(pattern) # <<>>
          [] OTHER -> /\ <<req.method, pattern>> \in Routes
                      /\ RunGates(Gates(pattern), h, req).pass

----------------------------------------------------------------------------
(* Background tasks and shutdown                                           *)

\* Handlers of the task model: contact (a valid POST) and sendEmail schedule
\* a task, health does not.
TaskKinds == {"contact", "sendEmail", "health"}

\* runtime.FuncForPC(reflect.ValueOf(fn).Pointer()).Name() of the closure
\* the handler passes to backgroundTask.
funcName(kind) ==
    IF kind = "contact" THEN "main.contact.func1.1" ELSE "main.sendEmail.func1.1"

\* The process runs: no unrecovered panic, and main has not returned.
Running == procAlive /\ mainpc # "exited"

\* A handler that has been accepted and has not returned.
InFlight(r) == hpc[r] \in {"running", "written", "scheduled", "blocked"}

\* A task between wg.Add(1) and wg.Done().
Outstanding(t) == tpc[t] \notin {"idle", "done"}

TaskInit ==
    /\ wgCounter = 1
    /\ mainpc = "waiting"
    /\ shutpc = "waitSignal"
    /\ hpc = [r \in Reqs |-> "idle"]
    /\ hkind = [r \in Reqs |-> "none"]
    /\ hstatus = [r \in Reqs |-> 0]
    /\ hafter = [r \in Reqs |-> FALSE]
    /\ tpc = [r \in Reqs |-> "idle"]
    /\ tout = [r \in Reqs |-> "none"]
    /\ taskLog = [r \in Reqs |-> <<>>]
    /\ procAlive = TRUE

\* wg.Add(-n), as wg.Done() calls it with n = 1: the counter drops, and a
\* counter that reaches zero releases the goroutine blocked in wg.Wait().
wgDone(n) ==
    /\ wgCounter' = wgCounter - n
    /\ mainpc' = IF n > 0 /\ wgCounter - n = 0 /\ mainpc = "waiting"
                 THEN "released" ELSE mainpc

\* The listener hands a request to a new handler goroutine.  Requests are
\* numbered in the order they are accepted.
Accept(r, kind) ==
    /\ Running
    /\ shutpc = "waitSignal"
    /\ hpc[r] = "idle"
    /\ \A q \in Reqs : q < r => hpc[q] # "idle"
    /\ hpc' = [hpc EXCEPT ![r] = "running"]
    /\ hkind' = [hkind EXCEPT ![r] = kind]
    /\ hafter' = [hafter EXCEPT ![r] =
                    kind = "health" /\ \E t \in Reqs : tout[t] = "panic" /\ tpc[t] = "done"]
    /\ UNCHANGED httpVars
    /\ UNCHANGED tabVars
    /\ UNCHANGED unitVars
    /\ UNCHANGED <<wgCounter, mainpc, shutpc, hstatus, tpc, tout, taskLog, procAlive>>

\* A handler that never returns (a client that stops reading, a render
\* that does not end).
HandlerBlocks(r) ==
    /\ Running
    /\ hpc[r] = "running" /\ hkind[r] # "health"
    /\ hpc' = [hpc EXCEPT ![r] = "blocked"]
    /\ UNCHANGED httpVars
    /\ UNCHANGED tabVars
    /\ UNCHANGED unitVars
    /\ UNCHANGED <<wgCounter, mainpc, shutpc, hkind, hstatus, hafter, tpc, tout,
                   taskLog, procAlive>>

\* backgroundTask, the caller's side: wg.Add(1), then the go statement.
backgroundTask(r) ==
    /\ wgCounter' = wgCounter + 1
    /\ tpc' = [tpc EXCEPT ![r] = "spawned"]

\* A variant that runs fn in the caller's goroutine: the call returns when
\* the task has ended.
backgroundTaskReturnedSync(taskpc) == taskpc = "done"

\* Whether the call of backgroundTask has returned to the handler, given the
\* position of the task it started: the go statement does not wait.
backgroundTaskReturned(taskpc) == TRUE

\* contact, a POST with a valid form: the task is scheduled before the page
\* is rendered.
ContactSchedule(r) ==
    /\ Running
    /\ hpc[r] = "running" /\ hkind[r] = "contact"
    /\ backgroundTask(r)
    /\ hpc' = [hpc EXCEPT ![r] = "scheduled"]
    /\ UNCHANGED httpVars
    /\ UNCHANGED tabVars
    /\ UNCHANGED unitVars
    /\ UNCHANGED <<mainpc, shutpc, hkind, hstatus, hafter, tout, taskLog, procAlive>>

ContactRender(r) ==
    /\ Running
    /\ hpc[r] = "scheduled" /\ hkind[r] = "contact"
    /\ backgroundTaskReturned(tpc[r])
    /\ hstatus' = [hstatus EXCEPT ![r] = StatusFound]
    /\ hpc' = [hpc EXCEPT ![r] = "done"]
    /\ UNCHANGED httpVars
    /\ UNCHANGED tabVars
    /\ UNCHANGED unitVars
    /\ UNCHANGED <<wgCounter, mainpc, shutpc, hkind, hafter, tpc, tout, taskLog,
                   procAlive>>

\* sendEmail writes "Email queued" first and schedules the task after.
SendEmailWrite(r) ==
    /\ Running
    /\ hpc[r] = "running" /\ hkind[r] = "sendEmail"
    /\ hstatus' = [hstatus EXCEPT ![r] = StatusOK]
    /\ hpc' = [hpc EXCEPT ![r] = "written"]
    /\ UNCHANGED httpVars
    /\ UNCHANGED tabVars
    /\ UNCHANGED unitVars
    /\ UNCHANGED <<wgCounter, mainpc, shutpc, hkind, hafter, tpc, tout, taskLog,
                   procAlive>>

SendEmailSchedule(r) ==
    /\ Running
    /\ hpc[r] = "written" /\ hkind[r] = "sendEmail"
    /\ backgroundTask(r)
    /\ hpc' = [hpc EXCEPT ![r] = "scheduled"]
    /\ UNCHANGED httpVars
    /\ UNCHANGED tabVars
    /\ UNCHANGED unitVars
    /\ UNCHANGED <<mainpc, shutpc, hkind, hstatus, hafter, tout, taskLog, procAlive>>

SendEmailReturn(r) ==
    /\ Running
    /\ hpc[r] = "scheduled" /\ hkind[r] = "sendEmail"
    /\ backgroundTaskReturned(tpc[r])
    /\ hpc' = [hpc EXCEPT ![r] = "done"]
    /\ UNCHANGED httpVars
    /\ UNCHANGED tabVars
    /\ UNCHANGED unitVars
    /\ UNCHANGED <<wgCounter, mainpc, shutpc, hkind, hstatus, hafter, tpc, tout,
                   taskLog, procAlive>>

Health(r) ==
    /\ Running
    /\ hpc[r] = "running" /\ hkind[r] = "health"
    /\ hstatus' = [hstatus EXCEPT ![r] = StatusOK]
    /\ hpc' = [hpc EXCEPT ![r] = "done"]
    /\ UNCHANGED httpVars
    /\ UNCHANGED tabVars
    /\ UNCHANGED unitVars
    /\ UNCHANGED <<wgCounter, mainpc, shutpc, hkind, hafter, tpc, tout, taskLog,
                   procAlive>>

\* An entry written by logger.Error("task", "name", funcName, "error", ...).
TaskLogEntry(t, site) ==
    [level |-> "ERROR", msg |-> "task", name |-> funcName(hkind[t]), site |-> site]

\* Variants of the deferred function: one without recover(), which leaves
\* the panic in flight, and one that logs whatever recover() returned.
taskRecoverMissing(t, outcome) == [recovered |-> FALSE, logs |-> <<>>]

taskRecoverLogsAlways(t, outcome) ==
    [recovered |-> TRUE, logs |-> <<TaskLogEntry(t, "recover")>>]

\* The deferred function: err := recover(); a panic ends here and is
\* logged, a normal return finds nothing to recover.
taskRecover(t, outcome) ==
    [recovered |-> TRUE,
     logs |-> IF outcome = "panic" THEN <<TaskLogEntry(t, "recover")>> ELSE <<>>]

\* A variant that calls wg.Done() at the end of the function body instead of
\* deferring it: a panic skips the call.
taskDoneNotDeferred(t, outcome) == IF outcome = "panic" THEN 0 ELSE 1

\* The number of wg.Done() calls the goroutine makes on its way out: the
\* deferred call runs however fn ended.
taskDone(t, outcome) == 1

\* The task's goroutine runs to its end: wg.Done and the recovering function
\* are deferred, the name of fn is looked up, fn is called; it returns nil,
\* returns an error, which is logged, or panics; then the deferred functions
\* run, last deferred first.  A panic that nothing recovered ends the
\* process.
TaskRun(t, outcome) ==
    /\ Running
    /\ tpc[t] = "spawned"
    /\ tout' = [tout EXCEPT ![t] = outcome]
    /\ taskLog' = [taskLog EXCEPT ![t] =
                     (IF outcome = "err" THEN Append(@, TaskLogEntry(t, "return")) ELSE @)
                       \o taskRecover(t, outcome).logs]
    /\ wgDone(taskDone(t, outcome))
    /\ procAlive' = (outcome = "panic" => taskRecover(t, outcome).recovered)
    /\ tpc' = [tpc EXCEPT ![t] = "done"]
    /\ UNCHANGED httpVars
    /\ UNCHANGED tabVars
    /\ UNCHANGED unitVars
    /\ UNCHANGED <<shutpc, hpc, hkind, hstatus, hafter>>

\* fn never ends (a mailer that keeps retrying, a connection that hangs).
TaskBlocks(t) ==
    /\ Running
    /\ tpc[t] = "spawned"
    /\ tpc' = [tpc EXCEPT ![t] = "blocked"]
    /\ UNCHANGED httpVars
    /\ UNCHANGED tabVars
    /\ UNCHANGED unitVars
    /\ UNCHANGED <<wgCounter, mainpc, shutpc, hpc, hkind, hstatus, hafter, tout,
                   taskLog, procAlive>>

\* A termination signal cancels ctx; the shutdown goroutine calls
\* httpServer.Shutdown, which closes the listener.
Signal ==
    /\ Running
    /\ shutpc = "waitSignal"
    /\ shutpc' = "httpShutdown"
    /\ UNCHANGED httpVars
    /\ UNCHANGED tabVars
    /\ UNCHANGED unitVars
    /\ UNCHANGED <<wgCounter, mainpc, hpc, hkind, hstatus, hafter, tpc, tout,
                   taskLog, procAlive>>

\* Shutdown returns nil once no request is in flight.
HttpShutdownIdle ==
    /\ Running
    /\ shutpc = "httpShutdown"
    /\ \A r \in Reqs : ~InFlight(r)
    /\ shutpc' = "returned"
    /\ UNCHANGED httpVars
    /\ UNCHANGED tabVars
    /\ UNCHANGED unitVars
    /\ UNCHANGED <<wgCounter, mainpc, hpc, hkind, hstatus, hafter, tpc, tout,
                   taskLog, procAlive>>

\* A variant of Shutdown called with a context that never expires.
HttpShutdownNoDeadline ==
    /\ FALSE
    /\ UNCHANGED vars

\* Shutdown returns the context's error when the 10 seconds of shutdownCtx
\* run out with requests still in flight.
HttpShutdownDeadline ==
    /\ Running
    /\ shutpc = "httpShutdown"
    /\ \E r \in Reqs : InFlight(r)
    /\ shutpc' = "returned"
    /\ UNCHANGED httpVars
    /\ UNCHANGED tabVars
    /\ UNCHANGED unitVars
    /\ UNCHANGED <<wgCounter, mainpc, hpc, hkind, hstatus, hafter, tpc, tout,
                   taskLog, procAlive>>

\* The shutdown goroutine ends: its deferred wg.Done() balances the
\* wg.Add(1) of runApp.
ShutdownDone ==
    /\ Running
    /\ shutpc = "returned"
    /\ wgDone(1)
    /\ shutpc' = "done"
    /\ UNCHANGED httpVars
    /\ UNCHANGED tabVars
    /\ UNCHANGED unitVars
    /\ UNCHANGED <<hpc, hkind, hstatus, hafter, tpc, tout, taskLog, procAlive>>

\* wg.Wait() wakes, finds the counter still at zero and returns:
\* logger.Info("application shutdown complete").
MainLogComplete ==
    /\ Running
    /\ mainpc = "released"
    /\ wgCounter = 0
    /\ mainpc' = "complete"
    /\ UNCHANGED httpVars
    /\ UNCHANGED tabVars
    /\ UNCHANGED unitVars
    /\ UNCHANGED <<wgCounter, shutpc, hpc, hkind, hstatus, hafter, tpc, tout,
                   taskLog, procAlive>>

\* wg.Wait() wakes and finds that a handler has called wg.Add(1) since the
\* counter reached zero: sync panics with "WaitGroup is reused before
\* previous Wait has returned", in runApp's goroutine, where nothing
\* recovers it.
MainWaitPanics ==
    /\ Running
    /\ mainpc = "released"
    /\ wgCounter # 0
    /\ mainpc' = "panicked"
    /\ procAlive' = FALSE
    /\ UNCHANGED httpVars
    /\ UNCHANGED tabVars
    /\ UNCHANGED unitVars
    /\ UNCHANGED <<wgCounter, shutpc, hpc, hkind, hstatus, hafter, tpc, tout, taskLog>>

\* runApp returns nil and main with it: the process exits.
MainReturn ==
    /\ Running
    /\ mainpc = "complete"
    /\ mainpc' = "exited"
    /\ UNCHANGED httpVars
    /\ UNCHANGED tabVars
    /\ UNCHANGED unitVars
    /\ UNCHANGED <<wgCounter, shutpc, hpc, hkind, hstatus, hafter, tpc, tout,
                   taskLog, procAlive>>

\* The steps of the goroutines the Go scheduler runs, and the timer of
\* shutdownCtx.
GoroutineStep ==
    \/ \E r \in Reqs : ContactSchedule(r)
    \/ \E r \in Reqs : ContactRender(r)
    \/ \E r \in Reqs : SendEmailWrite(r)
    \/ \E r \in Reqs : SendEmailSchedule(r)
    \/ \E r \in Reqs : SendEmailReturn(r)
    \/ \E r \in Reqs : Health(r)
    \/ \E t \in Reqs, o \in {"nil", "err", "panic"} : TaskRun(t, o)
    \/ HttpShutdownIdle
    \/ HttpShutdownDeadline
    \/ ShutdownDone
    \/ MainLogComplete
    \/ MainWaitPanics
    \/ MainReturn

\* Arrivals, the signal, and a handler or a work function that blocks are
\* the environment's.
EnvironmentStep ==
    \/ \E r \in Reqs, k \in TaskKinds : Accept(r, k)
    \/ \E r \in Reqs : HandlerBlocks(r)
    \/ \E t \in Reqs : TaskBlocks(t)
    \/ Signal

----------------------------------------------------------------------------
(* One client against the chain, one request at a time                     *)

HttpInit ==
    /\ cfg \in Configs
    /\ jar = [session |-> 0, csrf |-> FALSE]
    /\ prev = "none"
    /\ conn = IdleConn
    /\ app = IdleApp([t \in Tokens |-> NoSession], 1)

AtStage(name) ==
    conn.pc = "down" /\ conn.depth \in DOMAIN Chain /\ Chain[conn.depth] = name

\* next.ServeHTTP(w, r)
CallNext == conn' = [conn EXCEPT !.depth = @ + 1]

\* The form of a correct login: the configured identity and the password
\* the configured hash was made from, with the CSRF token.
IsCorrectLogin(req) ==
    /\ req.method = "POST" /\ req.path = "/login/" /\ req.csrfToken = "valid"
    /\ req.email = cfg.authEmail
    /\ req.password = cfg.passwordHash.pw

\* The client sends a request with its cookies; a form can carry the CSRF
\* token only if the client has the CSRF cookie.  The session manager has a
\* token left to give.
Arrive(r) ==
    /\ conn.pc = "idle"
    /\ app.nextToken <= MaxTokens
    /\ r.csrfToken = "valid" => jar.csrf
    /\ conn' = [IdleConn EXCEPT !.pc = "down", !.depth = 1,
                                !.req = [r EXCEPT !.cookie = jar.session,
                                                  !.csrfCookie = jar.csrf]]
    /\ UNCHANGED <<cfg, jar, prev, app>>
    /\ UNCHANGED taskVars
    /\ UNCHANGED tabVars
    /\ UNCHANGED unitVars

LogRequestMW ==
    /\ AtStage("logRequestMW")
    /\ app' = [app EXCEPT !.log =
                 Append(@, LogEntry("INFO", "request",
                                    [proto |-> "HTTP/1.1", method |-> conn.req.method,
                                     uri |-> conn.req.path]))]
    /\ CallNext
    /\ UNCHANGED <<cfg, jar, prev>>
    /\ UNCHANGED taskVars
    /\ UNCHANGED tabVars
    /\ UNCHANGED unitVars

\* sessionManager.Load: the data stored under the request's token, or new
\* session data if the store has none.
Load(store, token) ==
    IF token # 0 /\ store[token].live
    THEN [token |-> token, auth |-> store[token].auth, msgs |-> store[token].msgs,
          status |-> "unmodified"]
    ELSE NewSessionData

\* LoadAndSave: the session data is loaded into the request's context and
\* the response writer is wrapped.
LoadAndSave ==
    /\ AtStage("LoadAndSave")
    /\ app' = [app EXCEPT !.sess = Load(app.store, conn.req.cookie), !.sw = TRUE]
    /\ conn' = [conn EXCEPT !.depth = @ + 1,
                            !.loaded = Load(app.store, conn.req.cookie).msgs]
    /\ UNCHANGED <<cfg, jar, prev>>
    /\ UNCHANGED taskVars
    /\ UNCHANGED tabVars
    /\ UNCHANGED unitVars

\* LoadAndSave, and the store or the codec fails on the request's token:
\* ErrorFunc answers 500 with http.Error and the chain is not entered.
SessionLoadFails ==
    /\ AtStage("LoadAndSave")
    /\ conn.req.cookie # 0
    /\ app' = HttpError(app, "Internal Server Error", StatusInternalServerError)
    /\ conn' = [conn EXCEPT !.pc = "respond", !.fault = "loadError"]
    /\ UNCHANGED <<cfg, jar, prev>>
    /\ UNCHANGED taskVars
    /\ UNCHANGED tabVars
    /\ UNCHANGED unitVars

\* A variant of the deferred function that answers and logs nothing.
recoverPanicMWSilent(h) ==
    HttpError([h EXCEPT !.panic = FALSE,
                        !.sw = SessionWraps(StageIndex("recoverPanicMW"))],
              ServerErrorMessage, StatusInternalServerError)

\* recoverPanicMW's deferred function, for a panic that reached it: the
\* response, if none is written yet, is serverError's.
recoverPanicMW(h) ==
    serverError([h EXCEPT !.panic = FALSE,
                          !.sw = SessionWraps(StageIndex("recoverPanicMW"))],
                PanicValue)

\* A panic in the stage the request is at unwinds: recoverPanicMW answers
\* if it is outside the stage; if not the panic leaves the chain, and
\* net/http closes the connection without a response.
Unwind(fault) ==
    IF Recovered(conn.depth)
    THEN /\ app' = recoverPanicMW(app)
         /\ conn' = [conn EXCEPT !.pc = "respond", !.fault = fault]
    ELSE /\ app' = Panic(app)
         /\ conn' = [conn EXCEPT !.pc = "aborted", !.fault = fault]

\* LoadAndSave panics while it loads the session.
SessionPanics ==
    /\ AtStage("LoadAndSave")
    /\ Unwind("session")
    /\ UNCHANGED <<cfg, jar, prev>>
    /\ UNCHANGED taskVars
    /\ UNCHANGED tabVars
    /\ UNCHANGED unitVars

\* authenticateMW: the context says authenticated if the session does.
AuthenticateMW ==
    /\ AtStage("authenticateMW")
    /\ app' = [app EXCEPT !.auth = app.sess.auth]
    /\ CallNext
    /\ UNCHANGED <<cfg, jar, prev>>
    /\ UNCHANGED taskVars
    /\ UNCHANGED tabVars
    /\ UNCHANGED unitVars

AuthenticatePanics ==
    /\ AtStage("authenticateMW")
    /\ Unwind("authenticate")
    /\ UNCHANGED <<cfg, jar, prev>>
    /\ UNCHANGED taskVars
    /\ UNCHANGED tabVars
    /\ UNCHANGED unitVars

SecureHeadersMW ==
    /\ AtStage("secureHeadersMW")
    /\ app' = [app EXCEPT !.resp.headers =
                 [n \in HeaderNames |->
                    IF n \in DOMAIN SecureHeaders THEN SecureHeaders[n] ELSE @[n]]]
    /\ CallNext
    /\ UNCHANGED <<cfg, jar, prev>>
    /\ UNCHANGED taskVars
    /\ UNCHANGED tabVars
    /\ UNCHANGED unitVars

\* recoverPanicMW on the way in: the recovering function is deferred.
RecoverPanicMW ==
    /\ AtStage("recoverPanicMW")
    /\ CallNext
    /\ UNCHANGED <<cfg, jar, prev, app>>
    /\ UNCHANGED taskVars
    /\ UNCHANGED tabVars
    /\ UNCHANGED unitVars

\* The mux serves the request.  A panic in it unwinds like any other.
Mux(fault) ==
    /\ AtStage("mux")
    /\ FaultApplies(app, conn.req, fault)
    /\ LET out == ServeMux(app, conn.req, fault)
       IN  IF out.panic /\ ~Recovered(conn.depth)
           THEN /\ app' = out
                /\ conn' = [conn EXCEPT !.pc = "aborted", !.fault = fault]
           ELSE /\ app' = IF out.panic THEN recoverPanicMW(out) ELSE out
                /\ conn' = [conn EXCEPT !.pc = "respond", !.fault = fault]
    /\ UNCHANGED <<cfg, jar, prev>>
    /\ UNCHANGED taskVars
    /\ UNCHANGED tabVars
    /\ UNCHANGED unitVars

\* What the client remembers of the exchange that has ended: that it was a
\* correct login, or that it has posted a logout that logout answered and
\* no login of its has succeeded since.
Exchange ==
    IF IsCorrectLogin(conn.req) /\ conn.fault = "none" THEN "loginCorrect"
    ELSE IF /\ conn.req.method = "POST" /\ conn.req.path = "/login/"
            /\ app.resp.status = StatusSeeOther
    THEN "other"
    ELSE IF /\ conn.req.method = "POST" /\ conn.req.path = "/logout/"
            /\ app.resp.status = StatusSeeOther /\ app.resp.headers["Location"] = "/"
    THEN "loggedOut"
    ELSE IF prev = "loggedOut" THEN "loggedOut"
    ELSE "other"

\* The client receives the response and keeps the cookies it sets.
Deliver ==
    /\ conn.pc = "respond"
    /\ jar' = [session |-> IF app.resp.setCookie # 0 THEN app.resp.setCookie
                           ELSE jar.session,
               csrf |-> jar.csrf \/ app.resp.setCsrf]
    /\ prev' = Exchange
    /\ conn' = IdleConn
    /\ app' = IdleApp(app.store, app.nextToken)
    /\ UNCHANGED cfg
    /\ UNCHANGED taskVars
    /\ UNCHANGED tabVars
    /\ UNCHANGED unitVars

\* The connection of a request whose panic left the chain is closed.
Abort ==
    /\ conn.pc = "aborted"
    /\ prev' = Exchange
    /\ conn' = IdleConn
    /\ app' = IdleApp(app.store, app.nextToken)
    /\ UNCHANGED <<cfg, jar>>
    /\ UNCHANGED taskVars
    /\ UNCHANGED tabVars
    /\ UNCHANGED unitVars

----------------------------------------------------------------------------
(* Two tabs of one browser: requests of one session in flight together     *)

\* Number of requests the tabs send.
MaxTabReqs == 5

Tabs == {"left", "right"}

\* The texts the handlers put into the flash queue.
FlashTexts ==
    {"Welcome!", "You made it!", "You are in!", "You've been logged out!",
     "Email or password is incorrect", "please correct the form errors"}

IdleTab == [pc |-> "idle", req |-> NoRequest, sess |-> NewSessionData, resp |-> NoResponse]

TabInit ==
    /\ tabs = [t \in Tabs |-> IdleTab]
    /\ tabSent = 0
    /\ flashCount = [x \in FlashTexts |-> [put |-> 0, shown |-> 0]]
    /\ revoked = [tokens |-> {}, late |-> {}]

\* The requests a tab sends: pages, the login with the configured
\* credentials, the logout.
TabRequests ==
    {Get("/"), Get("/contact/"), Get("/login/")}
    \cup {[NoRequest EXCEPT !.method = "POST", !.path = "/login/", !.csrfToken = "valid",
                            !.email = TestEmail, !.password = TestPassword],
          [NoRequest EXCEPT !.method = "POST", !.path = "/logout/", !.csrfToken = "valid"]}

\* A tab sends a request with the cookies the browser has.
TabArrive(t, r) ==
    /\ tabs[t].pc = "idle"
    /\ tabSent < MaxTabReqs
    /\ r.csrfToken = "valid" => jar.csrf
    /\ tabs' = [tabs EXCEPT ![t] = [IdleTab EXCEPT !.pc = "arrived",
                                      !.req = [r EXCEPT !.cookie = jar.session,
                                                        !.csrfCookie = jar.csrf]]]
    /\ tabSent' = tabSent + 1
    /\ revoked' = [revoked EXCEPT !.late = IF jar.session \in revoked.tokens
                                           THEN @ \cup {t} ELSE @ \ {t}]
    /\ UNCHANGED flashCount
    /\ UNCHANGED httpVars
    /\ UNCHANGED taskVars
    /\ UNCHANGED unitVars

\* LoadAndSave on the way in: the request gets its own copy of the session
\* data the store has under its token.
TabLoad(t) ==
    /\ tabs[t].pc = "arrived"
    /\ tabs' = [tabs EXCEPT ![t].pc = "loaded",
                            ![t].sess = Load(app.store, tabs[t].req.cookie)]
    /\ UNCHANGED <<tabSent, flashCount, revoked>>
    /\ UNCHANGED httpVars
    /\ UNCHANGED taskVars
    /\ UNCHANGED unitVars

\* How often the text is among the messages.
CountText(msgs, x) == Cardinality({i \in DOMAIN msgs : msgs[i].Message = x})

\* The messages a request has put: those its page shows or its session
\* keeps, after the ones it was loaded with.
MessagesPut(loaded, out) ==
    LET all == out.resp.flashes \o out.sess.msgs
    IN  SubSeq(all, Len(loaded) + 1, Len(all))

\* The rest of the chain for the request of a tab: authenticateMW and
\* secureHeadersMW, then the mux on the request's copy of the session data;
\* the first write saves the copy in the store under the copy's token.
TabServe(t) ==
    /\ tabs[t].pc = "loaded"
    /\ app.nextToken <= MaxTokens
    /\ LET h == [IdleApp(app.store, app.nextToken) EXCEPT
                    !.sess = tabs[t].sess,
                    !.auth = tabs[t].sess.auth,
                    !.sw = TRUE,
                    !.resp.headers = [n \in HeaderNames |->
                        IF n \in DOMAIN SecureHeaders THEN SecureHeaders[n] ELSE @[n]]]
           out == ServeMux(h, tabs[t].req, "none")
           put == MessagesPut(tabs[t].sess.msgs, out)
       IN  /\ app' = [app EXCEPT !.store = out.store, !.nextToken = out.nextToken]
           /\ tabs' = [tabs EXCEPT ![t].pc = "respond", ![t].sess = out.sess,
                                   ![t].resp = out.resp]
           /\ flashCount' =
                 [x \in FlashTexts |->
                    [put |-> flashCount[x].put + CountText(put, x),
                     shown |-> flashCount[x].shown + CountText(out.resp.flashes, x)]]
           /\ revoked' =
                 IF /\ tabs[t].req.method = "POST" /\ tabs[t].req.path = "/logout/"
                    /\ out.resp.status = StatusSeeOther
                    /\ tabs[t].req.cookie # 0
                 THEN [revoked EXCEPT !.tokens = @ \cup {tabs[t].req.cookie}]
                 ELSE revoked
    /\ UNCHANGED <<cfg, jar, prev, conn, tabSent>>
    /\ UNCHANGED taskVars
    /\ UNCHANGED unitVars

\* The browser receives the response of a tab and keeps its cookies.
TabDeliver(t) ==
    /\ tabs[t].pc = "respond"
    /\ jar' = [session |-> IF tabs[t].resp.setCookie # 0 THEN tabs[t].resp.setCookie
                           ELSE jar.session,
               csrf |-> jar.csrf \/ tabs[t].resp.setCsrf]
    /\ tabs' = [tabs EXCEPT ![t] = IdleTab]
    /\ UNCHANGED <<cfg, prev, conn, app, tabSent, flashCount, revoked>>
    /\ UNCHANGED taskVars
    /\ UNCHANGED unitVars

TabNext ==
    \/ \E t \in Tabs, r \in TabRequests : TabArrive(t, r)
    \/ \E t \in Tabs : TabLoad(t)
    \/ \E t \in Tabs : TabServe(t)
    \/ \E t \in Tabs : TabDeliver(t)

----------------------------------------------------------------------------
(* The start of the process: main and the head of runApp                   *)

\* The texts given to -smtp-port or SMTP_PORT, one character per element.
PortStrings == { <<>>, <<"2", "5">>, <<"5", "8", "7">>, <<"2", "5", "x">>, <<"-", "1">> }

DigitValue ==
    [c \in {"0", "1", "2", "3", "4", "5", "6", "7", "8", "9"} |->
        CASE c = "0" -> 0 [] c = "1" -> 1 [] c = "2" -> 2 [] c = "3" -> 3
          [] c = "4" -> 4 [] c = "5" -> 5 [] c = "6" -> 6 [] c = "7" -> 7
          [] c = "8" -> 8 [] c = "9" -> 9]

RECURSIVE DecimalValue(_)
DecimalValue(s) ==
    IF s = <<>> THEN 0
    ELSE 10 * DecimalValue(SubSeq(s, 1, Len(s) - 1)) + DigitValue[s[Len(s)]]

\* strconv.Atoi: an optional sign and at least one digit, nothing else.
Atoi(s) ==
    LET signed == Len(s) > 0 /\ s[1] \in {"+", "-"}
        digits == IF signed THEN Tail(s) ELSE s
    IN  IF digits = <<>> \/ \E i \in DOMAIN digits : digits[i] \notin DOMAIN DigitValue
        THEN [n |-> 0, err |-> TRUE]
        ELSE [n |-> IF signed /\ s[1] = "-" THEN 0 - DecimalValue(digits)
                    ELSE DecimalValue(digits),
              err |-> FALSE]

\* What the process is started with: the command line (well formed, with a
\* flag that is not defined, or -h), -dev, -smtp-port and SMTP_PORT,
\* -send-email, whether mail.NewClient accepts the SMTP settings and whether
\* the address can be listened on.
BootInputs ==
    [flags : {"ok", "undefined", "help"},
     devMode : BOOLEAN,
     smtpPortFlag : {[set |-> FALSE, value |-> <<>>]}
                        \cup {[set |-> TRUE, value |-> v] : v \in PortStrings},
     smtpPortEnv : PortStrings,
     sendEmail : BOOLEAN,
     newClient : {"ok", "error"},
     listen : {"ok", "error"}]

BootIdle ==
    [pc |-> "idle", in |-> << >>, smtpPort |-> 0, mailer |-> "", err |-> "",
     log |-> <<>>, stderr |-> <<>>, exit |-> -1]

BootInit ==
    \E in \in BootInputs :
        boot = [BootIdle EXCEPT !.pc = "flags", !.in = in]

\* The value of *smtpPortString: the flag's, and SMTP_PORT without the flag.
smtpPortString(in) ==
    IF in.smtpPortFlag.set THEN in.smtpPortFlag.value ELSE in.smtpPortEnv

\* fs.Parse under flag.ExitOnError: a command line it cannot parse is
\* reported on standard error with the usage and ends the process with code
\* 2, -h prints the usage and ends it with code 0; Parse returns only nil.
ParseFlags ==
    /\ boot.pc = "flags"
    /\ boot' = CASE boot.in.flags = "undefined" ->
                      [boot EXCEPT !.pc = "exited", !.exit = 2,
                                   !.stderr = <<"flag provided but not defined", "usage">>]
                 [] boot.in.flags = "help" ->
                      [boot EXCEPT !.pc = "exited", !.exit = 0, !.stderr = <<"usage">>]
                 [] OTHER -> [boot EXCEPT !.pc = "smtpPort"]
    /\ UNCHANGED notBoot

ParseSmtpPort ==
    /\ boot.pc = "smtpPort"
    /\ LET text == smtpPortString(boot.in)
       IN  boot' = IF text = <<>> /\ boot.in.devMode
                   THEN [boot EXCEPT !.pc = "mailer", !.smtpPort = 0]
                   ELSE IF Atoi(text).err
                   THEN [boot EXCEPT !.pc = "return", !.err = "error parsing smtpPort"]
                   ELSE [boot EXCEPT !.pc = "mailer", !.smtpPort = Atoi(text).n]
    /\ UNCHANGED notBoot

\* The mailer: email.NewMailer under -send-email, the log mailer without.
SetUpMailer ==
    /\ boot.pc = "mailer"
    /\ boot' = IF boot.in.sendEmail
               THEN IF boot.in.newClient = "error"
                    THEN [boot EXCEPT !.pc = "return", !.err = "smtp mailer setup failed",
                                      !.log = Append(@, "smtp configuration error")]
                    ELSE [boot EXCEPT !.pc = "serve", !.mailer = "smtp"]
               ELSE [boot EXCEPT !.pc = "serve", !.mailer = "log"]
    /\ UNCHANGED notBoot

\* The rest of runApp: the server runs until the process is signalled (by
\* itself when ListenAndServe fails), Shutdown, wg.Wait, return nil.
ServeUntilShutdown ==
    /\ boot.pc = "serve"
    /\ boot' = [boot EXCEPT !.pc = "return",
                            !.log = @ \o (IF boot.in.listen = "error"
                                          THEN <<"listen and serve error">> ELSE <<>>)
                                      \o <<"application shutdown complete">>]
    /\ UNCHANGED notBoot

\* main: an error of runApp goes to standard error and the code is 1.
MainExit ==
    /\ boot.pc = "return"
    /\ boot' = IF boot.err # ""
               THEN [boot EXCEPT !.pc = "exited", !.exit = 1, !.stderr = Append(@, boot.err)]
               ELSE [boot EXCEPT !.pc = "exited", !.exit = 0]
    /\ UNCHANGED notBoot

BootNext ==
    \/ ParseFlags
    \/ ParseSmtpPort
    \/ SetUpMailer
    \/ ServeUntilShutdown
    \/ MainExit

----------------------------------------------------------------------------
(* The static file system on its own                                       *)

\* The names of the model's files and directories, one character per
\* element.
Name ==
    [static |-> <<"s", "t", "a", "t", "i", "c">>,
     staticOld |-> <<"s", "t", "a", "t", "i", "c", "-", "o", "l", "d">>,
     templates |-> <<"t", "e", "m", "p", "l", "a", "t", "e", "s">>,
     indexHTML |-> <<"i", "n", "d", "e", "x", ".", "h", "t", "m", "l">>,
     appCSS |-> <<"a", "p", "p", ".", "c", "s", "s">>,
     img |-> <<"i", "m", "g">>,
     docs |-> <<"d", "o", "c", "s">>]

\* filepath.Join of a clean path and a name
Join(dir, name) == dir \o <<"/">> \o name

\* strings.HasPrefix
HasPrefix(s, prefix) ==
    /\ Len(s) >= Len(prefix)
    /\ SubSeq(s, 1, Len(prefix)) = prefix

ErrNotExist == "file does not exist"

\* The embedded trees the model is checked with, each a function from the
\* names in it to "file" or "dir": static/ with a style sheet, an image
\* directory with or without an index.html, a docs directory whose index.html
\* is absent, a file, an empty directory or a directory with its own
\* index.html, and templates and static-old next to static.
Entry(name, kind) == [n \in {name} |-> kind]

EmbeddedTrees ==
    { Entry(Name.static, "dir") @@ Entry(Join(Name.static, Name.appCSS), "file")
        @@ Entry(Name.templates, "dir") @@ Entry(Join(Name.templates, Name.indexHTML), "file")
        @@ Entry(Name.staticOld, "dir") @@ Entry(Join(Name.staticOld, Name.indexHTML), "file")
        @@ Entry(Join(Name.static, Name.img), "dir") @@ imgIndex @@ docsDir
      : imgIndex \in { << >>, Entry(Join(Join(Name.static, Name.img), Name.indexHTML), "file") },
        docsDir \in
          { << >>,
            Entry(Join(Name.static, Name.docs), "dir"),
            Entry(Join(Name.static, Name.docs), "dir")
                @@ Entry(Join(Join(Name.static, Name.docs), Name.indexHTML), "file"),
            Entry(Join(Name.static, Name.docs), "dir")
                @@ Entry(Join(Join(Name.static, Name.docs), Name.indexHTML), "dir"),
            Entry(Join(Name.static, Name.docs), "dir")
                @@ Entry(Join(Join(Name.static, Name.docs), Name.indexHTML), "dir")
                @@ Entry(Join(Join(Join(Name.static, Name.docs), Name.indexHTML),
                              Name.indexHTML), "file") } }

\* The names Open is asked for.
OpenNames ==
    { Name.static, Join(Name.static, Name.appCSS), Join(Name.static, Name.img),
      Join(Name.static, Name.docs), Join(Join(Name.static, Name.docs), Name.indexHTML),
      Join(Name.static, Name.templates), Name.templates,
      Join(Name.templates, Name.indexHTML), Name.staticOld,
      Join(Name.staticOld, Name.indexHTML) }

\* Open of the embedded file system: the entry, or a not-exist error.
embedOpen(tree, name) ==
    IF name \in DOMAIN tree THEN [f |-> tree[name], err |-> ""]
    ELSE [f |-> "none", err |-> ErrNotExist]

\* staticFileSystem.Open, with the names it opened in the embedded tree.
OpenAnyDirectory(tree, path) ==
    IF ~HasPrefix(path, Name.static)
    THEN [f |-> "none", err |-> ErrNotExist, opened |-> <<>>]
    ELSE [f |-> embedOpen(tree, path).f, err |-> embedOpen(tree, path).err,
          opened |-> <<path>>]

Open(tree, path) ==
    IF ~HasPrefix(path, Name.static)
    THEN [f |-> "none", err |-> ErrNotExist, opened |-> <<>>]
    ELSE LET f == embedOpen(tree, path)
             index == Join(path, Name.indexHTML)
         IN  IF f.err # "" THEN [f |-> "none", err |-> f.err, opened |-> <<path>>]
             ELSE IF f.f = "dir" /\ embedOpen(tree, index).err # ""
             THEN [f |-> "none", err |-> embedOpen(tree, index).err,
                   opened |-> <<path, index>>]
             ELSE [f |-> f.f, err |-> "",
                   opened |-> IF f.f = "dir" THEN <<path, index>> ELSE <<path>>]

FilesIdle == [pc |-> "idle", tree |-> << >>, name |-> <<>>, f |-> "none", err |-> "",
              opened |-> <<>>, served |-> ""]

FilesInit ==
    \E tree \in EmbeddedTrees, name \in OpenNames :
        files = [FilesIdle EXCEPT !.pc = "open", !.tree = tree, !.name = name]

StaticOpen ==
    /\ files.pc = "open"
    /\ LET o == Open(files.tree, files.name)
       IN  files' = [files EXCEPT !.pc = "opened", !.f = o.f, !.err = o.err,
                                  !.opened = o.opened]
    /\ UNCHANGED notFiles

\* http.FileServer for GET /static/...: the name is the cleaned URL path
\* without its first slash.  An error of Open is answered 404, a file is
\* sent, and a directory is answered with its index.html if Open opens that
\* as well, with a listing of the directory otherwise.
StaticServe ==
    /\ files.pc = "opened"
    /\ files.name = Name.static \/ HasPrefix(files.name, Name.static \o <<"/">>)
    /\ LET index == Open(files.tree, Join(files.name, Name.indexHTML))
       IN  files' = [files EXCEPT
                !.pc = "served",
                !.served = IF files.err # "" THEN "404 page not found"
                           ELSE IF files.f = "file" THEN "file"
                           ELSE IF index.err = "" THEN "index.html"
                           ELSE "directory listing",
                !.opened = IF files.err = "" /\ files.f = "dir"
                           THEN @ \o index.opened ELSE @]
    /\ UNCHANGED notFiles

FilesNext == StaticOpen \/ StaticServe

----------------------------------------------------------------------------
(* The next parameter: from the gate's redirect to the redirect of login   *)
(* URLs are sequences of characters.                                       *)

Letters ==
    {"a", "b", "c", "d", "e", "f", "g", "h", "i", "j", "k", "l", "m",
     "n", "o", "p", "q", "r", "s", "t", "u", "v", "w", "x", "y", "z"}

\* The characters url.QueryEscape leaves as they are.
Unreserved ==
    Letters \cup {"A", "B", "C", "D", "E", "F", "0", "1", "2", "3", "4", "5", "6", "7",
                  "8", "9", "-", "_", ".", "~"}

\* The escape of the other characters of the model: % and the two hex digits
\* of each byte, and + for the space.
EscapeOf ==
    [c \in {"/", "?", "=", "&", "%", "+", ":", " ", "é"} |->
        CASE c = "/" -> <<"%", "2", "F">>
          [] c = "?" -> <<"%", "3", "F">>
          [] c = "=" -> <<"%", "3", "D">>
          [] c = "&" -> <<"%", "2", "6">>
          [] c = "%" -> <<"%", "2", "5">>
          [] c = "+" -> <<"%", "2", "B">>
          [] c = ":" -> <<"%", "3", "A">>
          [] c = " " -> <<"+">>
          [] c = "é" -> <<"%", "C", "3", "%", "A", "9">>]

RECURSIVE QueryEscape(_)
QueryEscape(s) ==
    IF s = <<>> THEN <<>>
    ELSE (IF s[1] \in Unreserved THEN <<s[1]>> ELSE EscapeOf[s[1]]) \o QueryEscape(Tail(s))

\* url.QueryUnescape: + is a space and %XX the byte; a % that two hex digits
\* do not follow is an error.
RECURSIVE QueryUnescape(_)
QueryUnescape(s) ==
    IF s = <<>> THEN [s |-> <<>>, err |-> FALSE]
    ELSE IF s[1] \in {"+", "%"}
    THEN LET cs == {c \in DOMAIN EscapeOf :
                        /\ Len(EscapeOf[c]) <= Len(s)
                        /\ SubSeq(s, 1, Len(EscapeOf[c])) = EscapeOf[c]}
         IN  IF cs = {} THEN [s |-> <<>>, err |-> TRUE]
             ELSE LET c == CHOOSE c \in cs : \A d \in cs : Len(EscapeOf[d]) <= Len(EscapeOf[c])
                      rest == QueryUnescape(SubSeq(s, Len(EscapeOf[c]) + 1, Len(s)))
                  IN  [s |-> <<c>> \o rest.s, err |-> rest.err]
    ELSE LET rest == QueryUnescape(Tail(s))
         IN  [s |-> <<s[1]>> \o rest.s, err |-> rest.err]

\* strings.Index for one character: its first position, 0 if there is none.
Index(s, c) ==
    IF \E i \in DOMAIN s : s[i] = c
    THEN CHOOSE i \in DOMAIN s : s[i] = c /\ \A j \in 1..(i - 1) : s[j] # c
    ELSE 0

\* r.URL.Query().Get(key) on the raw query: the pairs are split at &, each at
\* its first =, both sides unescaped; a pair that cannot be unescaped is left
\* out; the value of the first pair with the key, or "".
RECURSIVE QueryGet(_, _)
QueryGet(query, key) ==
    IF query = <<>> THEN <<>>
    ELSE LET amp == Index(query, "&")
             pair == IF amp = 0 THEN query ELSE SubSeq(query, 1, amp - 1)
             rest == IF amp = 0 THEN <<>> ELSE SubSeq(query, amp + 1, Len(query))
             eq == Index(pair, "=")
             k == QueryUnescape(IF eq = 0 THEN pair ELSE SubSeq(pair, 1, eq - 1))
             v == QueryUnescape(IF eq = 0 THEN <<>> ELSE SubSeq(pair, eq + 1, Len(pair)))
         IN  IF ~k.err /\ ~v.err /\ k.s = key THEN v.s ELSE QueryGet(rest, key)

\* r.URL.RawQuery of a request URI
RawQuery(uri) ==
    IF Index(uri, "?") = 0 THEN <<>> ELSE SubSeq(uri, Index(uri, "?") + 1, Len(uri))

\* path.Clean of a rooted path: no empty and no . elements, .. takes the
\* element before it away, no slash at the end.
RECURSIVE CleanElements(_, _)
CleanElements(p, kept) ==
    IF p = <<>> THEN kept
    ELSE LET slash == Index(p, "/")
             elem == IF slash = 0 THEN p ELSE SubSeq(p, 1, slash - 1)
             rest == IF slash = 0 THEN <<>> ELSE SubSeq(p, slash + 1, Len(p))
         IN  CleanElements(rest,
                 IF elem \in {<<>>, <<".">>} THEN kept
                 ELSE IF elem = <<".", ".">>
                 THEN (IF kept = <<>> THEN kept ELSE SubSeq(kept, 1, Len(kept) - 1))
                 ELSE Append(kept, elem))

RECURSIVE JoinElements(_)
JoinElements(elems) ==
    IF elems = <<>> THEN <<>> ELSE <<"/">> \o elems[1] \o JoinElements(Tail(elems))

Clean(p) ==
    IF CleanElements(p, <<>>) = <<>> THEN <<"/">> ELSE JoinElements(CleanElements(p, <<>>))

\* hexEscapeNonASCII: the bytes that are not ASCII are written as %XX.
RECURSIVE hexEscapeNonASCII(_)
hexEscapeNonASCII(s) ==
    IF s = <<>> THEN <<>>
    ELSE (IF s[1] = "é" THEN EscapeOf[s[1]] ELSE <<s[1]>>) \o hexEscapeNonASCII(Tail(s))

LoginPath == <<"/", "l", "o", "g", "i", "n", "/">>

\* The Location http.Redirect sets for url in login, whose request path is
\* /login/: a URL with a scheme or a host is taken as it is; of another, the
\* path is made absolute and cleaned, the slash at its end and the query kept.
RedirectLocation(url) ==
    LET hasScheme == \E i \in 2..Len(url) :
                        /\ url[i] = ":"
                        /\ url[1] \in Letters
                        /\ \A j \in 1..(i - 1) :
                              url[j] \in Letters \cup {"0", "1", "2", "3", "4", "5", "6",
                                                       "7", "8", "9", "+", "-", "."}
        hasHost == /\ Len(url) >= 3
                   /\ url[1] = "/" /\ url[2] = "/" /\ url[3] \notin {"/", "?"}
        abs == IF url = <<>> \/ url[1] # "/" THEN LoginPath \o url ELSE url
        q == Index(abs, "?")
        path == IF q = 0 THEN abs ELSE SubSeq(abs, 1, q - 1)
        query == IF q = 0 THEN <<>> ELSE SubSeq(abs, q, Len(abs))
        cleaned == IF path[Len(path)] = "/" /\ Clean(path) # <<"/">>
                   THEN Clean(path) \o <<"/">> ELSE Clean(path)
    IN  IF hasScheme \/ hasHost THEN hexEscapeNonASCII(url)
        ELSE hexEscapeNonASCII(cleaned \o query)

\* A variant that puts the request URI into the query as it is.
loginRedirectUnescaped(requestURI) ==
    LoginPath \o <<"?", "n", "e", "x", "t", "=">> \o requestURI

\* requireLoginMW's redirect for a request that is not authenticated
loginRedirect(requestURI) ==
    LoginPath \o <<"?", "n", "e", "x", "t", "=">> \o QueryEscape(requestURI)

\* login's redirect after the credentials were found right
loginNext(loginURL) ==
    LET next == QueryGet(RawQuery(loginURL), <<"n", "e", "x", "t">>)
    IN  RedirectLocation(IF next = <<>> THEN <<"/">> ELSE next)

\* The request URIs that reach requireLoginMW: the mux has redirected the
\* paths that are not clean.
RequestURIs ==
    {
      << "/", "l", "o", "g", "i", "n", "-", "r", "e", "q", "u", "i", "r",
         "e", "d", "/" >>,
      << "/", "l", "o", "g", "i", "n", "-", "r", "e", "q", "u", "i", "r",
         "e", "d", "/", "?" >>,
      << "/", "l", "o", "g", "i", "n", "-", "r", "e", "q", "u", "i", "r",
         "e", "d", "/", "?", "a", "=", "b" >>,
      << "/", "l", "o", "g", "i", "n", "-", "r", "e", "q", "u", "i", "r",
         "e", "d", "/", "?", "a", "=", "b", "&", "c", "=", "d" >>,
      << "/", "l", "o", "g", "i", "n", "-", "r", "e", "q", "u", "i", "r",
         "e", "d", "/", "?", "n", "e", "x", "t", "=", "/", "x" >>,
      << "/", "l", "o", "g", "i", "n", "-", "r", "e", "q", "u", "i", "r",
         "e", "d", "/", "?", "q", "=", "a", "+", "b" >>,
      << "/", "l", "o", "g", "i", "n", "-", "r", "e", "q", "u", "i", "r",
         "e", "d", "/", "?", "q", "=", "%", "2", "F" >>,
      << "/", "l", "o", "g", "i", "n", "-", "r", "e", "q", "u", "i", "r",
         "e", "d", "/", "?", "u", "=", "h", "t", "t", "p", ":", "/", "/",
         "x" >>,
      << "/", "l", "o", "g", "o", "u", "t", "/" >>,
      << "/", "l", "o", "g", "o", "u", "t", "/", "?" >>,
      << "/", "l", "o", "g", "o", "u", "t", "/", "?", "a", "=", "b" >>,
      << "/", "l", "o", "g", "o", "u", "t", "/", "?", "a", "=", "b", "&",
         "c", "=", "d" >>,
      << "/", "l", "o", "g", "o", "u", "t", "/", "?", "n", "e", "x", "t",
         "=", "/", "x" >>,
      << "/", "l", "o", "g", "o", "u", "t", "/", "?", "q", "=", "a", "+",
         "b" >>,
      << "/", "l", "o", "g", "o", "u", "t", "/", "?", "q", "=", "%", "2",
         "F" >>,
      << "/", "l", "o", "g", "o", "u", "t", "/", "?", "u", "=", "h", "t",
         "t", "p", ":", "/", "/", "x" >>,
      << "/", "l", "o", "g", "i", "n", "-", "r", "e", "q", "u", "i", "r",
         "e", "d", "/", "a", ".", "b" >>,
      << "/", "l", "o", "g", "i", "n", "-", "r", "e", "q", "u", "i", "r",
         "e", "d", "/", "a", ".", "b", "?" >>,
      << "/", "l", "o", "g", "i", "n", "-", "r", "e", "q", "u", "i", "r",
         "e", "d", "/", "a", ".", "b", "?", "a", "=", "b" >>,
      << "/", "l", "o", "g", "i", "n", "-", "r", "e", "q", "u", "i", "r",
         "e", "d", "/", "a", ".", "b", "?", "a", "=", "b", "&", "c", "=",
         "d" >>,
      << "/", "l", "o", "g", "i", "n", "-", "r", "e", "q", "u", "i", "r",
         "e", "d", "/", "a", ".", "b", "?", "n", "e", "x", "t", "=", "/",
         "x" >>,
      << "/", "l", "o", "g", "i", "n", "-", "r", "e", "q", "u", "i", "r",
         "e", "d", "/", "a", ".", "b", "?", "q", "=", "a", "+", "b" >>,
      << "/", "l", "o", "g", "i", "n", "-", "r", "e", "q", "u", "i", "r",
         "e", "d", "/", "a", ".", "b", "?", "q", "=", "%", "2", "F" >>,
      << "/", "l", "o", "g", "i", "n", "-", "r", "e", "q", "u", "i", "r",
         "e", "d", "/", "a", ".", "b", "?", "u", "=", "h", "t", "t", "p",
         ":", "/", "/", "x" >>,
      << "/", "l", "o", "g", "i", "n", "-", "r", "e", "q", "u", "i", "r",
         "e", "d", "/", "é" >>,
      << "/", "l", "o", "g", "i", "n", "-", "r", "e", "q", "u", "i", "r",
         "e", "d", "/", "é", "?" >>,
      << "/", "l", "o", "g", "i", "n", "-", "r", "e", "q", "u", "i", "r",
         "e", "d", "/", "é", "?", "a", "=", "b" >>,
      << "/", "l", "o", "g", "i", "n", "-", "r", "e", "q", "u", "i", "r",
         "e", "d", "/", "é", "?", "a", "=", "b", "&", "c", "=", "d" >>,
      << "/", "l", "o", "g", "i", "n", "-", "r", "e", "q", "u", "i", "r",
         "e", "d", "/", "é", "?", "n", "e", "x", "t", "=", "/", "x" >>,
      << "/", "l", "o", "g", "i", "n", "-", "r", "e", "q", "u", "i", "r",
         "e", "d", "/", "é", "?", "q", "=", "a", "+", "b" >>,
      << "/", "l", "o", "g", "i", "n", "-", "r", "e", "q", "u", "i", "r",
         "e", "d", "/", "é", "?", "q", "=", "%", "2", "F" >>,
      << "/", "l", "o", "g", "i", "n", "-", "r", "e", "q", "u", "i", "r",
         "e", "d", "/", "é", "?", "u", "=", "h", "t", "t", "p", ":", "/",
         "/", "x" >> }

\* Login URLs a client comes with that no redirect of the gate gave it.
OwnLoginURLs ==
    {
      << "/", "l", "o", "g", "i", "n", "/" >>,
      << "/", "l", "o", "g", "i", "n", "/", "?", "n", "e", "x", "t", "=" >>,
      << "/", "l", "o", "g", "i", "n", "/", "?", "n", "e", "x", "t", "=",
         "/", "c", "o", "n", "t", "a", "c", "t", "/" >>,
      << "/", "l", "o", "g", "i", "n", "/", "?", "n", "e", "x", "t", "=",
         "%", "2", "F", "c", "o", "n", "t", "a", "c", "t", "%", "2", "F" >>,
      << "/", "l", "o", "g", "i", "n", "/", "?", "n", "e", "x", "t", "=",
         "h", "t", "t", "p", "s", ":", "/", "/", "e", "v", "i", "l", ".",
         "e", "x", "a", "m", "p", "l", "e", "/" >>,
      << "/", "l", "o", "g", "i", "n", "/", "?", "n", "e", "x", "t", "=",
         "%", "2", "F", "%", "2", "F", "e", "v", "i", "l", ".", "e", "x",
         "a", "m", "p", "l", "e", "%", "2", "F" >>,
      << "/", "l", "o", "g", "i", "n", "/", "?", "n", "e", "x", "t", "=",
         "/", "/", "e", "v", "i", "l", ".", "e", "x", "a", "m", "p", "l",
         "e" >>,
      << "/", "l", "o", "g", "i", "n", "/", "?", "n", "e", "x", "t", "=",
         "c", "o", "n", "t", "a", "c", "t" >>,
      << "/", "l", "o", "g", "i", "n", "/", "?", "n", "e", "x", "t", "=",
         "/", "a", "/", ".", ".", "/", "b", "/" >>,
      << "/", "l", "o", "g", "i", "n", "/", "?", "x", "=", "y", "&", "n",
         "e", "x", "t", "=", "%", "2", "F" >> }

TripIdle == [pc |-> "idle", uri |-> <<>>, loginURL |-> <<>>, location |-> <<>>]

TripInit ==
    \/ \E u \in RequestURIs : trip = [TripIdle EXCEPT !.pc = "gate", !.uri = u]
    \/ \E l \in OwnLoginURLs : trip = [TripIdle EXCEPT !.pc = "login", !.loginURL = l]

\* The client asks for a page behind requireLoginMW without being logged in
\* and follows the redirect.
GateRedirects ==
    /\ trip.pc = "gate"
    /\ trip' = [trip EXCEPT !.pc = "login", !.loginURL = loginRedirect(trip.uri)]
    /\ UNCHANGED notTrip

\* The client posts the configured credentials to the login URL.
LoginRedirects ==
    /\ trip.pc = "login"
    /\ trip' = [trip EXCEPT !.pc = "in", !.location = loginNext(trip.loginURL)]
    /\ UNCHANGED notTrip

TripNext == GateRedirects \/ LoginRedirects

----------------------------------------------------------------------------
(* Mailer.Send, called by a background task                                *)

\* The attempts of the retry loop of Send.
SendAttempts == 3

\* What client.DialAndSend does in one attempt: nil, or one of two errors.
DialOutcomes == {"", "dial timeout", "connection refused"}

\* What building the message does: nil, a recipient msg.To refuses, a
\* template that cannot be parsed or executed.
MessageOutcomes == {"", "failed to parse mail address", "template error"}

MailIdle ==
    [pc |-> "idle", message |-> "", dial |-> << >>, i |-> 0, attempts |-> <<>>,
     slept |-> <<>>, err |-> "", returned |-> "", calls |-> 0, log |-> <<>>]

MailInit ==
    \E message \in MessageOutcomes, dial \in [1..SendAttempts -> DialOutcomes] :
        mail = [MailIdle EXCEPT !.pc = "task", !.message = message, !.dial = dial]

\* backgroundTask's goroutine: err := fn(), and fn calls mailer.Send.
TaskCallsSend ==
    /\ mail.pc = "task"
    /\ mail' = [mail EXCEPT !.pc = "message", !.calls = @ + 1]
    /\ UNCHANGED notMail

\* Send up to the loop: recipient, reply-to, sender, subject and bodies; the
\* first error is returned.
BuildMessage ==
    /\ mail.pc = "message"
    /\ mail' = IF mail.message # ""
               THEN [mail EXCEPT !.pc = "returned", !.returned = mail.message]
               ELSE [mail EXCEPT !.pc = "dial", !.i = 1]
    /\ UNCHANGED notMail

\* A variant of the loop body that gives up at the first error.
afterDialNoRetry(m, err) ==
    [m EXCEPT !.err = err, !.attempts = Append(@, m.i), !.pc = "returned",
              !.returned = err]

\* The body of the loop after DialAndSend returned err in attempt i: return
\* nil on success, sleep unless this was the third attempt, then the next
\* attempt or, after the loop, return err.
afterDial(m, err) ==
    LET m1 == [m EXCEPT !.err = err, !.attempts = Append(@, m.i)]
    IN  IF err = "" THEN [m1 EXCEPT !.pc = "returned", !.returned = ""]
        ELSE IF m.i # SendAttempts THEN [m1 EXCEPT !.pc = "sleep"]
        ELSE [m1 EXCEPT !.pc = "returned", !.returned = err, !.i = m.i + 1]

DialAndSend ==
    /\ mail.pc = "dial"
    /\ mail.i <= SendAttempts
    /\ mail' = afterDial(mail, mail.dial[mail.i])
    /\ UNCHANGED notMail

\* time.Sleep(2 * time.Second), then i++
Sleep ==
    /\ mail.pc = "sleep"
    /\ mail' = [mail EXCEPT !.pc = "dial", !.slept = Append(@, mail.i), !.i = @ + 1]
    /\ UNCHANGED notMail

\* fn has returned: the goroutine logs the error, if there is one, and ends.
TaskEnds ==
    /\ mail.pc = "returned"
    /\ mail' = [mail EXCEPT !.pc = "done",
                            !.log = IF mail.returned # "" THEN Append(@, mail.returned)
                                    ELSE @]
    /\ UNCHANGED notMail

MailNext == TaskCallsSend \/ BuildMessage \/ DialAndSend \/ Sleep \/ TaskEnds

----------------------------------------------------------------------------
(* The Validator on its own                                                *)

\* The number of calls made on one Validator.
MaxCalls == 3

FormKeys == {"Email", "Password"}

FormMessages == {"This field cannot be blank.", "Email must be a valid email."}

\* A Validator: the Errors map, which is nil until the first AddError unless
\* the caller made one.
NewValidator(isNil) == [isNil |-> isNil, Errors |-> << >>]

\* AddError: the map is made if it is nil; the message is stored unless the
\* key has one.
AddError(v, key, message) ==
    [isNil |-> FALSE, Errors |-> Check(v.Errors, key, FALSE, message)]

\* Check: AddError if ok is false.
ValidatorCheck(v, ok, key, message) == IF ~ok THEN AddError(v, key, message) ELSE v

\* Valid: no errors in the map; len of a nil map is 0.
Valid(v) == ~HasErrors(v.Errors)

FormIdle == [pc |-> "idle", v |-> NewValidator(TRUE), madeNil |-> TRUE, calls |-> <<>>]

FormInit ==
    \E isNil \in BOOLEAN :
        form = [FormIdle EXCEPT !.pc = "calls", !.v = NewValidator(isNil),
                                !.madeNil = isNil]

CallAddError(key, message) ==
    /\ form.pc = "calls"
    /\ Len(form.calls) < MaxCalls
    /\ form' = [form EXCEPT
            !.v = AddError(form.v, key, message),
            !.calls = Append(@, [op |-> "AddError", ok |-> FALSE, key |-> key,
                                 message |-> message])]
    /\ UNCHANGED notForm

CallCheck(ok, key, message) ==
    /\ form.pc = "calls"
    /\ Len(form.calls) < MaxCalls
    /\ form' = [form EXCEPT
            !.v = ValidatorCheck(form.v, ok, key, message),
            !.calls = Append(@, [op |-> "Check", ok |-> ok, key |-> key,
                                 message |-> message])]
    /\ UNCHANGED notForm

FormNext ==
    \/ \E key \in FormKeys, message \in FormMessages : CallAddError(key, message)
    \/ \E ok \in BOOLEAN, key \in FormKeys, message \in FormMessages :
            CallCheck(ok, key, message)

\* The units of the program that are checked on their own are idle while
\* the server runs.
UnitIdle ==
    /\ boot = BootIdle /\ files = FilesIdle /\ trip = TripIdle /\ mail = MailIdle
    /\ form = FormIdle

----------------------------------------------------------------------------

Init == HttpInit /\ TaskInit /\ TabInit /\ UnitIdle

Next ==
    \/ \E r \in Requests : Arrive(r)
    \/ LogRequestMW
    \/ LoadAndSave
    \/ SessionLoadFails
    \/ SessionPanics
    \/ AuthenticateMW
    \/ AuthenticatePanics
    \/ SecureHeadersMW
    \/ RecoverPanicMW
    \/ \E f \in MuxFaults : Mux(f)
    \/ Deliver
    \/ Abort

Spec == Init /\ [][Next]_vars

----------------------------------------------------------------------------
(* The goroutines of runApp together                                       *)

TaskNext == GoroutineStep \/ EnvironmentStep

\* The task model runs with the chain idle, under one configuration.
ServerInit ==
    /\ TaskInit
    /\ HttpInit
    /\ TabInit
    /\ cfg = [authEmail |-> TestEmail, passwordHash |-> HashOf("argon2id", TestPassword),
              devMode |-> FALSE]

TaskSpecInit == ServerInit /\ UnitIdle

TaskSpec == TaskSpecInit /\ [][TaskNext]_vars

\* The Go scheduler runs every runnable goroutine and the timer fires: a
\* goroutine's step that stays possible is taken.  No step of the model can
\* be taken twice, so fairness to the goroutines together is fairness to
\* each.
FairTaskSpec == TaskSpec /\ WF_vars(GoroutineStep)

\* The tabs run against a server with the configuration of the tests.
TabSpec == TaskSpecInit /\ [][TabNext]_vars

\* The start of the process, from the command line to the exit code.
BootStart ==
    /\ ServerInit /\ BootInit /\ files = FilesIdle /\ trip = TripIdle /\ mail = MailIdle
    /\ form = FormIdle

BootSpec == BootStart /\ [][BootNext]_vars

\* staticFileSystem.Open applied to a name of an embedded tree, and the
\* file server's answer.
FilesStart ==
    /\ ServerInit /\ FilesInit /\ boot = BootIdle /\ trip = TripIdle /\ mail = MailIdle
    /\ form = FormIdle

FilesSpec == FilesStart /\ [][FilesNext]_vars

\* The next parameter from the gate to the redirect of login.
TripStart ==
    /\ ServerInit /\ TripInit /\ boot = BootIdle /\ files = FilesIdle /\ mail = MailIdle
    /\ form = FormIdle

TripSpec == TripStart /\ [][TripNext]_vars

\* A background task that sends one mail.
MailStart ==
    /\ ServerInit /\ MailInit /\ boot = BootIdle /\ files = FilesIdle /\ trip = TripIdle
    /\ form = FormIdle

MailSpec == MailStart /\ [][MailNext]_vars

\* Calls of AddError and Check on one Validator.
FormStart ==
    /\ ServerInit /\ FormInit /\ boot = BootIdle /\ files = FilesIdle /\ trip = TripIdle
    /\ mail = MailIdle

FormSpec == FormStart /\ [][FormNext]_vars

----------------------------------------------------------------------------

----------------------------------------------------------------------------
(* Properties of the background tasks and of shutdown                      *)

\* C3: backgroundTask adds one to the wait counter before the task's
\* goroutine starts and the goroutine takes one off when it ends, whether the
\* work function returned nil, returned an error or panicked: the counter is
\* never negative, and it stands at its base value (one until the shutdown
\* goroutine has ended, zero after) plus the number of tasks still under way.
C3_CounterBalanced ==
    /\ wgCounter >= 0
    /\ wgCounter = (IF shutpc = "done" THEN 0 ELSE 1)
                      + Cardinality({t \in Reqs : Outstanding(t)})

\* A task that panicked and a task that returned an error have both ended,
\* and the counter is back at its base value.
C3_Witness ==
    /\ \E t \in Reqs : tpc[t] = "done" /\ tout[t] = "panic"
    /\ \E t \in Reqs : tpc[t] = "done" /\ tout[t] = "err"
    /\ wgCounter = 1

\* C4: a panic raised by a background task's work function is recovered in
\* the task's own goroutine: it does not end the process, and a request for
\* /health/ accepted after it is answered with 200.
C4_TaskPanicRecovered ==
    /\ \A t \in Reqs : tout[t] = "panic" => (procAlive \/ mainpc = "panicked")
    /\ \A r \in Reqs : hafter[r] /\ hpc[r] = "done" => hstatus[r] = StatusOK
    /\ \A r \in Reqs : hafter[r] /\ hpc[r] = "running" /\ shutpc = "waitSignal"
                           => ENABLED Health(r)

\* A task has panicked and ended, and a later /health/ request got its 200.
C4_Witness ==
    \E t, r \in Reqs :
        /\ tout[t] = "panic" /\ tpc[t] = "done"
        /\ hafter[r] /\ hpc[r] = "done" /\ hstatus[r] = StatusOK

\* C5: a task whose work function returned an error or panicked has written
\* exactly one error log entry, which names the work function; a task whose
\* work function returned nil has written none.
C5_OneErrorEntry ==
    \A t \in Reqs :
        /\ Len(taskLog[t]) <= 1
        /\ tpc[t] = "done" /\ tout[t] = "nil" => taskLog[t] = <<>>
        /\ tpc[t] = "done" /\ tout[t] \in {"err", "panic"} =>
              /\ Len(taskLog[t]) = 1
              /\ taskLog[t][1].level = "ERROR"
              /\ taskLog[t][1].name = funcName(hkind[t])

\* One task ended by a panic with its one entry, another ended with nil.
C5_Witness ==
    \E t, u \in Reqs :
        /\ tpc[t] = "done" /\ tout[t] = "panic" /\ Len(taskLog[t]) = 1
        /\ tpc[u] = "done" /\ tout[u] = "nil" /\ taskLog[u] = <<>>

\* C6: shutdown is reported complete only when every scheduled background
\* task has ended and the counter is zero, tasks scheduled by handlers that
\* outlive the HTTP shutdown deadline included.
C6_CompleteOnlyWhenTasksDone ==
    mainpc \in {"complete", "exited"} =>
        /\ wgCounter = 0
        /\ \A t \in Reqs : ~Outstanding(t)

C8_HandlerCompletes ==
    \A r \in Reqs : (hpc[r] = "scheduled") ~> (hpc[r] = "done" \/ ~Running)

\* A handler has completed while the task it scheduled is blocked.
C8_Witness ==
    \E r \in Reqs : hpc[r] = "done" /\ hstatus[r] # 0 /\ tpc[r] = "blocked"

----------------------------------------------------------------------------
(* Properties of the handler chain and of login                            *)

\* The request has been through the chain: answered, or dropped.
Ended == conn.pc \in {"respond", "aborted"}

HasSecurityHeaders(headers) ==
    /\ headers["X-Content-Type-Options"] = "nosniff"
    /\ headers["X-Frame-Options"] = "deny"
    /\ headers["Referrer-Policy"] = "origin-when-cross-origin"
    /\ headers["X-XSS-Protection"] = "0"

HandledAsAuthenticated ==
    conn.pc = "down" /\ conn.depth > StageIndex("authenticateMW") =>
        app.sess.auth /\ app.auth

UsableRecord ==
    /\ ~HasErrors(loginForm([email |-> cfg.authEmail, password |-> cfg.passwordHash.pw]))
    /\ cfg.passwordHash.alg = "argon2id"

IsFailedLogin(req) ==
    /\ req.method = "POST" /\ req.path = "/login/" /\ req.csrfToken = "valid"
    /\ ~HasErrors(loginForm(req))
    /\ req.email # cfg.authEmail \/ req.password # cfg.passwordHash.pw

\* The response to a failed login, from what the session held before the
\* request and nothing else: 422, the login page, the pending messages
\* followed by the one generic message, no field errors.
IsLoginFailureResponse(resp) ==
    /\ resp.status = StatusUnprocessableEntity
    /\ resp.body = "login.tmpl"
    /\ resp.flashes = Append(conn.loaded, FlashMessage("error", "Email or password is incorrect"))
    /\ resp.formErrors = <<>>
    /\ HasSecurityHeaders(resp.headers)

----------------------------------------------------------------------------
(* Properties of the session: tokens, the authenticated flag, messages     *)

\* The step in which the mux answers the request.
MuxAnswers == conn.pc = "down" /\ conn'.pc = "respond" /\ AtStage("mux")

\* The step is a login that succeeded: login has answered with its redirect.
LoginSucceeds ==
    /\ MuxAnswers
    /\ conn.req.method = "POST" /\ conn.req.path = "/login/"
    /\ app'.resp.status = StatusSeeOther

\* The step is a logout: logout has answered a POST with its redirect.
LogoutPosts ==
    /\ MuxAnswers
    /\ conn.req.method = "POST" /\ conn.req.path = "/logout/"
    /\ app'.resp.status = StatusSeeOther
    /\ app'.resp.headers["Location"] = "/"

LoginFailsValidation ==
    /\ MuxAnswers /\ conn'.fault = "none"
    /\ conn.req.method = "POST" /\ conn.req.path = "/login/"
    /\ conn.req.csrfCookie /\ conn.req.csrfToken = "valid"
    /\ HasErrors(loginForm(conn.req))

\* The token the client presents once it has the response of the step.
TokenAfter ==
    IF app'.resp.setCookie # 0 THEN app'.resp.setCookie ELSE conn.req.cookie

\* C12, as stated: a POST /login/ whose form has errors is answered with the
\* form and its field errors, and the session is as it was: the token, the
\* authenticated flag and the queue of messages the client's token stands
\* for after the request are those it stood for before.
C12_ValidationLeavesSession ==
    [][LoginFailsValidation =>
          /\ app'.resp.formErrors = loginForm(conn.req)
          /\ Load(app'.store, TokenAfter).token = Load(app.store, conn.req.cookie).token
          /\ Load(app'.store, TokenAfter).auth = Load(app.store, conn.req.cookie).auth
          /\ Load(app'.store, TokenAfter).msgs = Load(app.store, conn.req.cookie).msgs]_vars

\* C12, as the code has it: the request is answered 422 with the form and
\* its field errors; the authenticated flag is as it was and a token the
\* store knew is kept, not renewed.  The branch puts the message "please
\* correct the form errors" and renders: the response shows the messages
\* that were pending followed by that one, the queue is saved empty, and a
\* client that came without a session is given one.
C12_ValidationKeepsAuthAndToken ==
    [][LoginFailsValidation =>
          /\ app'.resp.status = StatusUnprocessableEntity
          /\ app'.resp.formErrors = loginForm(conn.req)
          /\ app'.resp.formErrors # <<>>
          /\ Load(app'.store, TokenAfter).auth = Load(app.store, conn.req.cookie).auth
          /\ Load(app.store, conn.req.cookie).token # 0 =>
                TokenAfter = conn.req.cookie
          /\ Load(app.store, conn.req.cookie).token = 0 =>
                TokenAfter = app.nextToken /\ app'.store[TokenAfter].live
          /\ app'.resp.flashes =
                Append(Load(app.store, conn.req.cookie).msgs,
                       FlashMessage("error", "please correct the form errors"))
          /\ Load(app'.store, TokenAfter).msgs = <<>>]_vars

\* A client with a pending message has posted a login form with errors: the
\* response shows the pending message, and the session keeps its token.
C12_Witness ==
    /\ conn.pc = "respond" /\ conn.fault = "none"
    /\ conn.req.method = "POST" /\ conn.req.path = "/login/"
    /\ conn.req.csrfCookie /\ conn.req.csrfToken = "valid"
    /\ HasErrors(loginForm(conn.req))
    /\ app.resp.status = StatusUnprocessableEntity
    /\ app.resp.formErrors # <<>>
    /\ conn.loaded # <<>> /\ Len(app.resp.flashes) = Len(conn.loaded) + 1
    /\ conn.req.cookie # 0 /\ app.resp.setCookie = conn.req.cookie
    /\ app.store[conn.req.cookie].msgs = <<>>

\* C13: a request to /logout/, GET or POST, with the CSRF token or without,
\* whose session is not authenticated is answered 303 to the login page by
\* requireLoginMW and logout is not run: the store, the session's token, its
\* authenticated key and its messages are as they were, and no session
\* cookie is set.
C13_LogoutGatedWhenAnonymous ==
    [][/\ MuxAnswers /\ conn'.fault = "none"
       /\ conn.req.path = "/logout/" /\ ~app.auth
       =>
       /\ app'.resp.status = StatusSeeOther
       /\ app'.resp.headers["Location"] = "/login/?next=%2Flogout%2F"
       /\ ~app'.pass
       /\ app'.store = app.store
       /\ app'.nextToken = app.nextToken
       /\ app'.sess = app.sess
       /\ app'.resp.setCookie = 0
       /\ app'.resp.flashes = <<>>]_vars

\* A client that has logged out, with the message of the logout pending,
\* has posted /logout/ again without the CSRF token: it is sent to the login
\* page and the message is pending still.
C13_Witness ==
    /\ conn.pc = "respond" /\ conn.fault = "none"
    /\ conn.req.method = "POST" /\ conn.req.path = "/logout/"
    /\ conn.req.csrfToken = "none"
    /\ ~app.auth
    /\ app.resp.status = StatusSeeOther
    /\ app.resp.headers["Location"] = "/login/?next=%2Flogout%2F"
    /\ conn.req.cookie # 0 /\ app.store[conn.req.cookie].live
    /\ conn.loaded # <<>> /\ app.store[conn.req.cookie].msgs = conn.loaded

C16_ContactPost ==
    /\ conn.pc = "respond" /\ conn.fault = "none"
    /\ conn.req.method = "POST" /\ conn.req.path = "/contact/"
    =>
    IF ~(conn.req.csrfCookie /\ conn.req.csrfToken = "valid")
    THEN /\ app.resp.status = StatusBadRequest
         /\ app.resp.body = ""
         /\ ~app.pass
         /\ app.tasks = 0
         /\ app.sess.status = "unmodified"
    ELSE /\ app.pass
         /\ ~HasErrors(contactForm(conn.req)) =>
               /\ app.resp.status = StatusFound
               /\ app.resp.body = "contact-success.tmpl"
               /\ app.tasks = 1
         /\ HasErrors(contactForm(conn.req)) =>
               /\ app.resp.status = StatusOK
               /\ app.resp.formErrors = contactForm(conn.req)
               /\ app.tasks = 0

\* A client has sent the contact form with the token of an earlier GET and
\* one task is scheduled.
C16_Witness ==
    /\ conn.pc = "respond" /\ conn.fault = "none"
    /\ conn.req.method = "POST" /\ conn.req.path = "/contact/"
    /\ conn.req.csrfCookie /\ conn.req.csrfToken = "valid"
    /\ ~HasErrors(contactForm(conn.req))
    /\ app.resp.status = StatusFound /\ app.tasks = 1

\* The texts of a log entry: the message and the attributes but the status.
LoggedTexts(entry) ==
    {entry.msg} \cup {entry.attrs[k] : k \in DOMAIN entry.attrs \ {"status"}}

\* The request has Basic credentials with the configured identity and a
\* password the configured hash is an argon2id hash of.
BasicCredentialsVerify(req) ==
    /\ req.basic # <<>>
    /\ req.basic[1] = cfg.authEmail
    /\ cfg.passwordHash.alg = "argon2id"
    /\ req.basic[2] = cfg.passwordHash.pw

Pages == {"home.tmpl", "contact.tmpl", "contact-success.tmpl", "login.tmpl", "logout.tmpl"}

\* C19: within one request the messages of successive putFlashMessage calls
\* go to the end of the session's queue in the order of the calls, after
\* the messages that were there, and newTemplateData returns the whole
\* queue in that order and leaves the session's queue empty.  home puts two
\* messages and renders: its page shows the messages the session was loaded
\* with, then "Welcome!", then "You made it!", and the session is saved
\* with no message; every rendered page shows the loaded messages first and
\* leaves none.
C19_FlashOrder ==
    conn.pc = "respond" /\ conn.fault = "none" =>
        /\ conn.req.method = "GET" /\ conn.req.path = "/" =>
              /\ app.resp.flashes =
                    conn.loaded \o <<FlashMessage("success", "Welcome!"),
                                     FlashMessage("success", "You made it!")>>
              /\ app.sess.msgs = <<>>
              /\ app.resp.setCookie # 0
              /\ app.store[app.resp.setCookie].msgs = <<>>
        /\ app.resp.body \in Pages =>
              /\ Len(app.resp.flashes) >= Len(conn.loaded)
              /\ SubSeq(app.resp.flashes, 1, Len(conn.loaded)) = conn.loaded
              /\ app.sess.msgs = <<>>
              /\ app.sess.token # 0 => app.store[app.sess.token].msgs = <<>>

\* A client with a pending message has asked for the home page: the page
\* shows the pending message and the two of home after it.
C19_Witness ==
    /\ conn.pc = "respond" /\ conn.fault = "none"
    /\ conn.req.method = "GET" /\ conn.req.path = "/"
    /\ Len(conn.loaded) = 1
    /\ app.resp.flashes =
          conn.loaded \o <<FlashMessage("success", "Welcome!"),
                           FlashMessage("success", "You made it!")>>
    /\ app.store[app.resp.setCookie].msgs = <<>>

----------------------------------------------------------------------------
(* Properties of recoverPanicMW                                            *)

\* The entries of the log that serverError wrote for the panic.
PanicEntries(log) ==
    {i \in DOMAIN log :
        log[i] = LogEntry("ERROR", "server error",
                          [status |-> StatusInternalServerError, error |-> PanicValue])}

\* The step is the mux panicking under recoverPanicMW.
MuxPanics ==
    /\ AtStage("mux") /\ conn'.pc \in {"respond", "aborted"}
    /\ conn'.fault \in {"gate", "handler", "handlerLate"}

----------------------------------------------------------------------------
(* Properties of the flash messages of a session shared by two tabs        *)

\* C18: a flash message put into a session is shown by at most one
\* rendered page, also when two requests of the session are in flight
\* together: no text has been shown more often than it was put.
C18_FlashShownAtMostOnce ==
    \A x \in FlashTexts : flashCount[x].shown <= flashCount[x].put

----------------------------------------------------------------------------
(* Properties of serverError                                               *)

\* The request is one login answers with serverError: the form passes the
\* checks, the email is the configured one and the configured hash is not
\* one argon2id reads.
LoginHashError ==
    /\ conn.fault \in {"none", "handlerLate"}
    /\ conn.req.method = "POST" /\ conn.req.path = "/login/"
    /\ conn.req.csrfCookie /\ conn.req.csrfToken = "valid"
    /\ ~HasErrors(loginForm(conn.req))
    /\ conn.req.email = cfg.authEmail
    /\ cfg.passwordHash.alg # "argon2id"

\* What serverError writes for the error: the text, and the error if the
\* text has it.
ServerErrorBody(err) ==
    IF cfg.devMode THEN [text |-> "error and stack trace", err |-> err]
    ELSE [text |-> ServerErrorMessage, err |-> ""]

\* C21: without -dev what serverError writes, for a recovered panic and for
\* the error of a handler, is the fixed text "The server encountered a
\* problem and could not process your request" whatever the panic value or
\* the error is: it is the body of the 500 when nothing was written before,
\* and it follows the handler's body when the handler had written.  The
\* body of a response has an error text or a stack trace only with -dev.
C21_TraceOnlyInDev ==
    conn.pc = "respond" =>
        /\ conn.fault \in {"gate", "handler"} \/ LoginHashError =>
              /\ app.resp.status = StatusInternalServerError
              /\ [text |-> app.resp.body, err |-> app.resp.bodyErr] =
                    ServerErrorBody(IF LoginHashError THEN ErrInvalidHash ELSE PanicValue)
        /\ app.resp.more =
              IF conn.fault = "handlerLate" THEN <<ServerErrorBody(PanicValue)>> ELSE <<>>
        /\ ~cfg.devMode =>
              /\ app.resp.bodyErr = ""
              /\ app.resp.body # "error and stack trace"
              /\ \A i \in DOMAIN app.resp.more :
                    app.resp.more[i] = [text |-> ServerErrorMessage, err |-> ""]

\* Without -dev login could not read the configured hash: the body of the
\* 500 is the fixed text, without the error.
C21_Witness ==
    /\ ~cfg.devMode
    /\ conn.pc = "respond" /\ conn.fault = "none" /\ LoginHashError
    /\ app.resp.status = StatusInternalServerError
    /\ app.resp.body = ServerErrorMessage /\ app.resp.bodyErr = ""

----------------------------------------------------------------------------
(* Properties of the start of the process                                  *)

FlagParseFails == boot.in.flags = "undefined"

SmtpPortMalformed ==
    /\ boot.in.flags = "ok"
    /\ smtpPortString(boot.in) # <<>>
    /\ Atoi(smtpPortString(boot.in)).err

MailerFails ==
    /\ boot.pc = "exited"
    /\ boot.err = "smtp mailer setup failed"

\* C22: the process exits with code 0 after a clean shutdown, and with code
\* 1 and the error on standard error on each startup configuration error: a
\* command line the flag set cannot parse, a malformed SMTP port, a mailer
\* that cannot be constructed.
C22_ExitCodes ==
    boot.pc = "exited" =>
        /\ (\E i \in DOMAIN boot.log : boot.log[i] = "application shutdown complete")
                => boot.exit = 0
        /\ FlagParseFails \/ SmtpPortMalformed \/ MailerFails =>
                /\ boot.exit = 1
                /\ boot.stderr # <<>>

\* C24: -smtp-port defaults to 25: started without the flag and without
\* SMTP_PORT, runApp goes on with port 25 and reports no configuration
\* error, with -dev and without it.
C24_SmtpPortDefault ==
    /\ boot.in.flags = "ok"
    /\ ~boot.in.smtpPortFlag.set
    /\ boot.in.smtpPortEnv = <<>>
    /\ boot.pc \in {"mailer", "serve", "return", "exited"}
    => /\ boot.smtpPort = 25
       /\ boot.err # "error parsing smtpPort"

----------------------------------------------------------------------------
(* Properties of the static file system                                    *)

HasIndex(tree, dir) == Join(dir, Name.indexHTML) \in DOMAIN tree

IsDirectory(tree, name) == name \in DOMAIN tree /\ tree[name] = "dir"

\* C23: staticFileSystem.Open returns a not-exist error for every directory
\* that has no index.html, and the file server answers such a directory
\* under /static/ with not-found, never with a listing; Open returns a
\* directory only if the directory contains index.html; and a path that does
\* not begin with "static" is refused with not-exist without being opened.
C23_NoListing ==
    files.pc \in {"opened", "served"} =>
        /\ IsDirectory(files.tree, files.name) /\ ~HasIndex(files.tree, files.name) =>
                /\ files.err = ErrNotExist
                /\ files.pc = "served" => files.served = "404 page not found"
        /\ files.err = "" /\ files.f = "dir" => HasIndex(files.tree, files.name)
        /\ ~HasPrefix(files.name, Name.static) =>
                /\ files.err = ErrNotExist
                /\ files.opened = <<>>

\* A directory without index.html was asked for and answered.
C23_Witness ==
    /\ files.pc = "served"
    /\ files.name = Join(Name.static, Name.docs)
    /\ IsDirectory(files.tree, files.name)
    /\ ~HasIndex(files.tree, files.name)
    /\ files.served = "404 page not found"

----------------------------------------------------------------------------
(* Where the authenticated flag comes from                                 *)

\* The step is login answering a POST that carries the configured email and
\* a password that ComparePasswordAndHash verifies against the configured
\* hash.
VerifiedLoginAnswered ==
    /\ LoginSucceeds
    /\ conn.req.email = cfg.authEmail
    /\ ~ComparePasswordAndHash(conn.req.password, cfg.passwordHash).err
    /\ ComparePasswordAndHash(conn.req.password, cfg.passwordHash).match

----------------------------------------------------------------------------
(* Logout and requests in flight                                           *)

\* C26: once a POST /logout/ has been answered, no request that arrives
\* later with a token of the session from before the logout is treated as
\* authenticated: the session it is given by LoadAndSave, which
\* authenticateMW reads, does not say authenticated.  This is to hold also
\* when another request of the session loaded it before the logout and
\* saved it after.
C26_LoggedOutTokenStaysOut ==
    \A t \in Tabs :
        tabs[t].pc = "loaded" /\ t \in revoked.late => ~tabs[t].sess.auth

----------------------------------------------------------------------------
(* Properties of the next parameter                                        *)

\* C27, as stated: the client that was sent to the login URL by the gate for
\* the request URI U and logs in there is redirected to exactly U, whatever
\* the path and the query of U; a login URL without next, or with an empty
\* one, leads to "/".
C27_NextRoundTripExact ==
    trip.pc = "in" =>
        /\ trip.uri # <<>> => trip.location = trip.uri
        /\ QueryGet(RawQuery(trip.loginURL), <<"n", "e", "x", "t">>) = <<>> =>
                trip.location = <<"/">>

\* C27, as the code has it: the Location is U as http.Redirect writes it,
\* with the bytes that are not ASCII percent-encoded, so exactly U for a
\* request URI of ASCII characters, its query included; a login URL without
\* next, or with an empty one, leads to "/".
C27_NextRoundTrip ==
    trip.pc = "in" =>
        /\ trip.uri # <<>> =>
                /\ trip.location = hexEscapeNonASCII(trip.uri)
                /\ (\A i \in DOMAIN trip.uri : trip.uri[i] # "é") =>
                        trip.location = trip.uri
        /\ QueryGet(RawQuery(trip.loginURL), <<"n", "e", "x", "t">>) = <<>> =>
                trip.location = <<"/">>

\* A request URI with a query that has its own next and escapes has made the
\* round trip.
C27_Witness ==
    /\ trip.pc = "in"
    /\ Index(trip.uri, "?") # 0
    /\ Index(trip.uri, "%") # 0
    /\ trip.loginURL # LoginPath \o <<"?", "n", "e", "x", "t", "=">> \o trip.uri
    /\ trip.location = trip.uri

\* An address on this site: a path from the root, without a scheme and
\* without a host.
IsSitePath(url) ==
    /\ url # <<>>
    /\ url[1] = "/"
    /\ Len(url) >= 2 => url[2] # "/"

\* C28: the Location of the redirect after a login is a path on this site; a
\* next that names another site, with a scheme or with two slashes, is not
\* used as the target.
C28_RedirectStaysOnSite ==
    trip.pc = "in" => IsSitePath(trip.location)

----------------------------------------------------------------------------
(* Properties of Mailer.Send                                               *)

SendReturned == mail.pc \in {"returned", "done"} /\ mail.message = ""

\* C29: Send makes at most three attempts for a message; an attempt is made
\* only after all before it failed, and Send returns nil at the first that
\* succeeds; it sleeps after every failed attempt but the third; it returns
\* the error of the third attempt, and does so only when all three failed (an
\* error of building the message comes before any attempt); and the
\* background task calls Send once, whatever it returns.
C29_BoundedRetry ==
    /\ Len(mail.attempts) <= SendAttempts
    /\ mail.calls <= 1
    /\ \A k \in DOMAIN mail.attempts :
            /\ mail.attempts[k] = k
            /\ k < Len(mail.attempts) => mail.dial[k] # ""
    /\ \A k \in DOMAIN mail.slept :
            mail.slept[k] = k /\ k < SendAttempts /\ mail.dial[k] # ""
    /\ Len(mail.slept) <= Len(mail.attempts)
    /\ mail.message # "" => mail.attempts = <<>>
    /\ SendReturned =>
            /\ mail.attempts # <<>>
            /\ Len(mail.slept) = Len(mail.attempts) - 1
            /\ mail.returned = mail.dial[Len(mail.attempts)]
            /\ mail.returned # "" =>
                    /\ Len(mail.attempts) = SendAttempts
                    /\ \A k \in 1..SendAttempts : mail.dial[k] # ""
            /\ mail.returned = "" => mail.dial[Len(mail.attempts)] = ""

\* Two attempts failed, the third delivered the message: Send has slept
\* twice and returned nil, and the task has ended without an entry.
C29_Witness ==
    /\ mail.pc = "done"
    /\ mail.attempts = <<1, 2, 3>>
    /\ mail.dial[1] # "" /\ mail.dial[2] # "" /\ mail.dial[3] = ""
    /\ mail.slept = <<1, 2>>
    /\ mail.returned = ""
    /\ mail.log = <<>>
    /\ mail.calls = 1

----------------------------------------------------------------------------
(* Properties of the Validator                                             *)

\* The calls that failed for the key, by their position: AddError, and Check
\* with a false condition.
FailingCalls(key) ==
    {i \in DOMAIN form.calls : ~form.calls[i].ok /\ form.calls[i].key = key}

FirstFailing(key) ==
    CHOOSE i \in FailingCalls(key) : \A j \in FailingCalls(key) : i <= j

\* C30: after any calls of AddError and Check, Errors has for a key the
\* message of the first failing call for it, and no entry for a key without
\* one; a Check with a true condition changes nothing, the nil map included;
\* Valid() is true exactly when no call has failed, and HasErrors() is its
\* negation, for a nil map as well.
C30_FirstMessageKept ==
    /\ \A key \in FormKeys :
            IF FailingCalls(key) = {}
            THEN key \notin DOMAIN form.v.Errors
            ELSE /\ key \in DOMAIN form.v.Errors
                 /\ form.v.Errors[key] = form.calls[FirstFailing(key)].message
    /\ DOMAIN form.v.Errors \subseteq FormKeys
    /\ form.v.isNil = (form.madeNil /\ \A key \in FormKeys : FailingCalls(key) = {})
    /\ Valid(form.v) = (\A key \in FormKeys : FailingCalls(key) = {})
    /\ HasErrors(form.v.Errors) = ~Valid(form.v)

\* A key failed twice with different messages, with a Check that held in
\* between: Errors has the first message.
C30_Witness ==
    /\ Len(form.calls) = 3
    /\ form.calls[1].op = "Check" /\ ~form.calls[1].ok
    /\ form.calls[2].op = "Check" /\ form.calls[2].ok
    /\ form.calls[3].op = "AddError"
    /\ form.calls[1].key = "Email" /\ form.calls[3].key = "Email"
    /\ form.calls[1].message # form.calls[3].message
    /\ form.v.Errors["Email"] = form.calls[1].message
    /\ ~Valid(form.v)

====
